---- MODULE Spec2Model ----
(***************************************************************************)
(* Backend of the library management application: the session guards and  *)
(* auth routes (auth.js) and the report routes (routes/reports.js), as a   *)
(* state machine over one browser session, the server's time zone and the  *)
(* database tables the routes read.                                        *)
(*                                                                         *)
(* Strings that the code inspects character by character (month, branchId, *)
(* the dates it builds) are sequences of one-character strings.            *)
(***************************************************************************)
EXTENDS Integers, Sequences, FiniteSets, Bags, TLC

\* An absent value (undefined, null, NaN) is the empty tuple and a present
\* value v is <<v>>.
None == <<>>
Some(v) == <<v>>
NaN == None

----------------------------------------------------------------------------
(* Characters and numbers                                                  *)

Digits == {"0", "1", "2", "3", "4", "5", "6", "7", "8", "9"}

DigitVal(c) ==
    CASE c = "0" -> 0 [] c = "1" -> 1 [] c = "2" -> 2 [] c = "3" -> 3
      [] c = "4" -> 4 [] c = "5" -> 5 [] c = "6" -> 6 [] c = "7" -> 7
      [] c = "8" -> 8 [] c = "9" -> 9

DigitChar(d) == CHOOSE c \in Digits : DigitVal(c) = d

IsDigits(s) == \A i \in 1..Len(s) : s[i] \in Digits

RECURSIVE DigitsValue(_)
DigitsValue(s) ==
    IF s = <<>> THEN 0
    ELSE 10 * DigitsValue(SubSeq(s, 1, Len(s) - 1)) + DigitVal(s[Len(s)])

\* Number(s) as applied by the Date constructor to a string argument.
ToNumber(s) == IF s # <<>> /\ IsDigits(s) THEN Some(DigitsValue(s)) ELSE NaN

RECURSIVE NatText(_)
NatText(n) ==
    IF n < 10 THEN <<DigitChar(n)>>
    ELSE NatText(n \div 10) \o <<DigitChar(n % 10)>>

RECURSIVE PadStart(_, _)
PadStart(s, w) == IF Len(s) >= w THEN s ELSE PadStart(<<"0">> \o s, w)

\* Length of the longest prefix of s made of digits.
RECURSIVE DigitPrefixLen(_)
DigitPrefixLen(s) ==
    IF s = <<>> \/ s[1] \notin Digits THEN 0 ELSE 1 + DigitPrefixLen(Tail(s))

RECURSIVE TrimStart(_)
TrimStart(s) == IF s # <<>> /\ s[1] = " " THEN TrimStart(Tail(s)) ELSE s

\* parseInt(s, 10): leading blanks, an optional sign, then the digits up to
\* the first character that is not one; NaN when there is no digit.
ParseInt(s) ==
    LET t == TrimStart(s)
        neg == t # <<>> /\ t[1] = "-"
        u == IF t # <<>> /\ t[1] \in {"-", "+"} THEN Tail(t) ELSE t
        n == DigitPrefixLen(u)
    IN  IF n = 0 THEN NaN
        ELSE IF neg THEN Some(0 - DigitsValue(SubSeq(u, 1, n)))
        ELSE Some(DigitsValue(SubSeq(u, 1, n)))

\* The text in which the database driver hands back a numeric sum.
NumericText(n) == IF n < 0 THEN <<"-">> \o NatText(0 - n) ELSE NatText(n)

\* parseFloat(s) on such a text.
ParseFloat(s) ==
    LET neg == s # <<>> /\ s[1] = "-"
        u == IF neg THEN Tail(s) ELSE s
        n == DigitPrefixLen(u)
    IN  IF n = 0 THEN NaN
        ELSE IF neg THEN Some(0 - DigitsValue(SubSeq(u, 1, n)))
        ELSE Some(DigitsValue(SubSeq(u, 1, n)))

\* x || 0
OrZero(x) == IF x = NaN THEN 0 ELSE x[1]

\* s.split(c)
RECURSIVE Split(_, _)
Split(s, c) ==
    LET hits == {i \in 1..Len(s) : s[i] = c}
    IN  IF hits = {} THEN <<s>>
        ELSE LET i == CHOOSE k \in hits : \A j \in hits : k <= j
             IN  <<SubSeq(s, 1, i - 1)>> \o Split(SubSeq(s, i + 1, Len(s)), c)

----------------------------------------------------------------------------
(* Calendar                                                                *)

IsLeap(y) == (y % 4 = 0 /\ y % 100 # 0) \/ y % 400 = 0

DaysInMonth(y, m) ==
    IF m = 2 THEN (IF IsLeap(y) THEN 29 ELSE 28)
    ELSE IF m \in {4, 6, 9, 11} THEN 30 ELSE 31

Date(y, m, d) == [y |-> y, m |-> m, d |-> d]

PrevDay(dt) ==
    IF dt.d > 1 THEN Date(dt.y, dt.m, dt.d - 1)
    ELSE IF dt.m > 1 THEN Date(dt.y, dt.m - 1, DaysInMonth(dt.y, dt.m - 1))
    ELSE Date(dt.y - 1, 12, 31)

NextDay(dt) ==
    IF dt.d < DaysInMonth(dt.y, dt.m) THEN Date(dt.y, dt.m, dt.d + 1)
    ELSE IF dt.m < 12 THEN Date(dt.y, dt.m + 1, 1)
    ELSE Date(dt.y + 1, 1, 1)

DateLE(a, b) ==
    \/ a.y < b.y
    \/ a.y = b.y /\ a.m < b.m
    \/ a.y = b.y /\ a.m = b.m /\ a.d <= b.d

\* new Date(year, monthIndex, 0) on string arguments: local midnight of the
\* day before the first day of month monthIndex (0-based, overflowing into
\* the following years); a year 0..99 means 1900 + year.
NewDateDayZero(year, monthIndex) ==
    LET yv == ToNumber(year)[1]
        mv == ToNumber(monthIndex)[1]
        fy == IF yv >= 0 /\ yv <= 99 THEN 1900 + yv ELSE yv
        ym == fy + (mv \div 12)
        mn == (mv % 12) + 1
    IN  PrevDay(Date(ym, mn, 1))

MinutesPerDay == 1440

\* Date.prototype.toISOString of local midnight of dt on a server whose
\* clock is tz minutes ahead of UTC: YYYY-MM-DDTHH:mm:ss.sssZ in UTC.
ToISOString(dt, tz) ==
    LET utc == 0 - tz
        shift == IF utc < 0 THEN -1 ELSE IF utc >= MinutesPerDay THEN 1 ELSE 0
        u == IF shift = -1 THEN PrevDay(dt)
             ELSE IF shift = 1 THEN NextDay(dt) ELSE dt
        mins == utc - shift * MinutesPerDay
    IN  PadStart(NatText(u.y), 4) \o <<"-">> \o PadStart(NatText(u.m), 2)
          \o <<"-">> \o PadStart(NatText(u.d), 2) \o <<"T">>
          \o PadStart(NatText(mins \div 60), 2) \o <<":">>
          \o PadStart(NatText(mins % 60), 2)
          \o <<":", "0", "0", ".", "0", "0", "0", "Z">>

\* The database's reading of a text parameter compared with a date column:
\* the date YYYY-MM-DD, or None when the text names no calendar day (the
\* query then fails).
PgDate(s) ==
    IF /\ Len(s) = 10
       /\ IsDigits(SubSeq(s, 1, 4)) /\ s[5] = "-"
       /\ IsDigits(SubSeq(s, 6, 7)) /\ s[8] = "-"
       /\ IsDigits(SubSeq(s, 9, 10))
    THEN LET y == DigitsValue(SubSeq(s, 1, 4))
             m == DigitsValue(SubSeq(s, 6, 7))
             d == DigitsValue(SubSeq(s, 9, 10))
         IN  IF y >= 1 /\ m >= 1 /\ m <= 12 /\ d >= 1 /\ d <= DaysInMonth(y, m)
             THEN Some(Date(y, m, d)) ELSE None
    ELSE None

----------------------------------------------------------------------------
(* Bounds and inputs                                                       *)

\* Requests of the session that may be awaiting a database or session-store
\* callback at the same time.
MaxInFlight == 1

\* Offsets of the server's clock from UTC, in minutes.
TzOffsets == {-300, 0, 330}

\* Values of the month query parameter: absent, empty, not of the form
\* dddd-dd, and of that form (January, leap February, month 13).
MonthInputs ==
    { None, Some(<<>>),
      Some(<<"2", "0", "2", "4", "-", "1">>),
      Some(<<"2", "0", "2", "4", "-", "0", "1">>),
      Some(<<"2", "0", "2", "4", "-", "0", "2">>),
      Some(<<"2", "0", "2", "4", "-", "1", "3">>) }

\* Values of the branchId query parameter.
BranchInputs ==
    { None, Some(<<>>), Some(<<"1">>), Some(<<"2">>),
      Some(<<"a", "b", "c">>), Some(<<"1", "x">>) }

UsernameInputs == {None, Some("asha"), Some("bilal"), Some("chen"),
                   Some("mallory")}
PasswordInputs == {Some(""), Some("pw1"), Some("pw2")}

Guards == {"checkAdmin", "authenticateUser", "checkPermission"}

----------------------------------------------------------------------------
(* Database                                                                *)

UserRows ==
    { [id |-> 1, username |-> "asha", password |-> "pw1", role |-> "admin"],
      [id |-> 2, username |-> "bilal", password |-> "pw2", role |-> "staff"],
      [id |-> 3, username |-> "chen", password |-> "pw1", role |-> "student"] }

StudentRows ==
    { [id |-> 1, name |-> "Asha", branch_id |-> 1, total_fee |-> 1000,
       amount_paid |-> 500, due_amount |-> 500],
      [id |-> 2, name |-> "Bilal", branch_id |-> 2, total_fee |-> 800,
       amount_paid |-> 700, due_amount |-> 100] }

HistoryRows ==
    { [id |-> 1, date |-> Date(2024, 1, 10), amount |-> 500, branch_id |-> 1],
      [id |-> 2, date |-> Date(2024, 1, 31), amount |-> 300, branch_id |-> 2],
      [id |-> 3, date |-> Date(2024, 2, 29), amount |-> 200, branch_id |-> 1] }

ExpenseRows ==
    { [id |-> 1, date |-> Date(2024, 1, 15), amount |-> 400, branch_id |-> 1],
      [id |-> 2, date |-> Date(2024, 1, 31), amount |-> 100, branch_id |-> 2],
      [id |-> 3, date |-> Date(2024, 2, 1), amount |-> 700, branch_id |-> 1] }

TransactionRows ==
    { [id |-> 1, student_id |-> 1, date |-> Date(2024, 1, 5),
       type |-> "payment", amount |-> 500],
      [id |-> 2, student_id |-> 2, date |-> Date(2024, 1, 31),
       type |-> "due", amount |-> 100],
      [id |-> 3, student_id |-> 2, date |-> Date(2024, 2, 10),
       type |-> "payment", amount |-> 700] }

FullDb ==
    [users |-> UserRows, students |-> StudentRows, history |-> HistoryRows,
     expenses |-> ExpenseRows, transactions |-> TransactionRows]

Databases == {FullDb}

\* Alphabetical order of the student names (ORDER BY s.name).
NameOrder == <<"Asha", "Bilal">>
NameRank(n) == CHOOSE i \in 1..Len(NameOrder) : NameOrder[i] = n

RECURSIVE SumAmount(_)
SumAmount(rows) ==
    IF rows = {} THEN 0
    ELSE LET r == CHOOSE x \in rows : TRUE
         IN  r.amount + SumAmount(rows \ {r})

----------------------------------------------------------------------------
(* State                                                                   *)

VARIABLES
    sessionUser,   \* req.session.user: None or Some([id, username, role])
    db,            \* the tables behind pool
    tz,            \* the server's clock offset from UTC, in minutes
    inflight,      \* bag of requests awaiting a callback, with their locals
    out,           \* the response sent by the last step, NoResponse if none
    lastAuth,      \* history: the last successful login or logout
    sample,        \* history: one earlier report response, None if none kept
    allStudents,   \* the state of the All Students page, by its names
    studentCalls,  \* bag of the page's api calls awaiting their response
    studentTable,  \* ids of the students the server has
    collectionDue,    \* the state of the Collection & Due page, by its names
    collectionCalls,  \* bag of the page's api calls awaiting their response
    collectionTable,  \* what the server has booked on each collection
    dashboard,        \* the state of the Dashboard, by its names
    dashboardCalls,   \* bag of the Dashboard's requests under way
    sidebar           \* the location and the state of the Sidebar

vars == <<sessionUser, db, tz, inflight, out, lastAuth>>

studentsPage == <<allStudents, studentCalls, studentTable>>

collectionsPage == <<collectionDue, collectionCalls, collectionTable>>

dashboardPage == <<dashboard, dashboardCalls>>

pages == <<studentsPage, collectionsPage, dashboardPage, sidebar>>

\* What no step of the server touches.
elsewhere == <<sample, pages>>

\* What no step of the All Students page touches.
offStudents == <<vars, sample, collectionsPage, dashboardPage, sidebar>>

\* What no step of the Collection & Due page touches.
offCollections == <<vars, sample, studentsPage, dashboardPage, sidebar>>

\* What no step of the Dashboard touches.
offDashboard == <<vars, sample, studentsPage, collectionsPage, sidebar>>

\* What no step of the Sidebar touches.
offSidebar == <<vars, sample, studentsPage, collectionsPage, dashboardPage>>

allVars == <<vars, elsewhere>>

NoRequest == [route |-> "none"]

NoResponse ==
    [req |-> NoRequest, next |-> FALSE, status |-> 0,
     body |-> [message |-> ""], queries |-> <<>>]

\* res.status(code).json(body), after the handler issued the given queries.
Respond(req, code, body, queries) ==
    [req |-> req, next |-> FALSE, status |-> code, body |-> body,
     queries |-> queries]

\* next() of a guard in front of a handler that is not part of this model.
PassedOn(req) ==
    [req |-> req, next |-> TRUE, status |-> 0, body |-> [message |-> ""],
     queries |-> <<>>]

\* An exception that leaves a guard: the framework answers 500 for it, with
\* a body that is no JSON message.
Thrown(req) ==
    [req |-> req, next |-> FALSE, status |-> 500, body |-> [html |-> "error"],
     queries |-> <<>>]

Init ==
    /\ sessionUser = None
    /\ db \in Databases
    /\ tz \in TzOffsets
    /\ inflight = EmptyBag
    /\ out = NoResponse
    /\ lastAuth = [event |-> "none", user |-> None]

Await(r) == inflight' = inflight (+) SetToBag({r})
Resume(r) == inflight (-) SetToBag({r})
CanAwait == BagCardinality(inflight) < MaxInFlight

\* !x of a query parameter (a character sequence when present)
Falsy(x) == x = None \/ x = Some(<<>>)

\* !x of a body field (a string when present)
FalsyField(x) == x = None \/ x = Some("")

----------------------------------------------------------------------------
(* Guards (auth.js)                                                        *)

Passed == [next |-> TRUE, threw |-> FALSE, status |-> 0, message |-> ""]
Refused(code, msg) ==
    [next |-> FALSE, threw |-> FALSE, status |-> code, message |-> msg]
Threw == [next |-> FALSE, threw |-> TRUE, status |-> 0, message |-> ""]

\* The session user carries no permissions (login stores id, username and
\* role), so userPermissions is []; permission is a free identifier of the
\* file: bound tells whether the surrounding program binds it, and reading
\* it throws when it does not.
checkPermission(user, bound) ==
    IF user = None THEN Refused(401, "Unauthorized - Please log in")
    ELSE IF user[1].role = "admin" THEN Passed
    ELSE IF ~bound THEN Threw
    ELSE Refused(403, "Forbidden - Insufficient permissions")

checkAdmin(user) ==
    IF user = None THEN Refused(401, "Unauthorized - Please log in")
    ELSE IF user[1].role # "admin"
    THEN Refused(403, "Forbidden: Admin access required")
    ELSE Passed

\* checkAdminOrStaff letting staff through only.
checkAdminOrStaffStaffOnly(user) ==
    IF user = None THEN Refused(401, "Unauthorized - Please log in")
    ELSE IF user[1].role = "staff" THEN Passed
    ELSE Refused(403, "Forbidden: Admin or Staff access required")

\* checkAdminOrStaff without its role test.
checkAdminOrStaffAnyRole(user) ==
    IF user = None THEN Refused(401, "Unauthorized - Please log in")
    ELSE Passed

checkAdminOrStaff(user) ==
    IF user = None THEN Refused(401, "Unauthorized - Please log in")
    ELSE IF user[1].role = "admin" \/ user[1].role = "staff" THEN Passed
    ELSE Refused(403, "Forbidden: Admin or Staff access required")

authenticateUser(user) ==
    IF user # None /\ user[1].id # 0 THEN Passed
    ELSE Refused(401, "Unauthorized - Please log in")

\* What the client sees of a guard's decision.
GuardOutcome(req, g) ==
    IF g.next THEN PassedOn(req)
    ELSE IF g.threw THEN Thrown(req)
    ELSE Respond(req, g.status, [message |-> g.message], <<>>)

----------------------------------------------------------------------------
(* Report routes (routes/reports.js)                                       *)

\* /^\d{4}-\d{2}$/.test(month)
MonthPattern(s) ==
    /\ Len(s) = 7
    /\ IsDigits(SubSeq(s, 1, 4))
    /\ s[5] = "-"
    /\ IsDigits(SubSeq(s, 6, 7))

\* !month || !/^\d{4}-\d{2}$/.test(month)
MonthRejected(month) == Falsy(month) \/ ~MonthPattern(month[1])

\* `${year}-${monthNum}-01`
StartDate(month) ==
    LET parts == Split(month, "-")
    IN  parts[1] \o <<"-">> \o parts[2] \o <<"-", "0", "1">>

\* new Date(year, monthNum, 0).toISOString().split('T')[0]
EndDate(month, zone) ==
    LET parts == Split(month, "-")
    IN  Split(ToISOString(NewDateDayZero(parts[1], parts[2]), zone), "T")[1]

\* new Date(y, m, 0).toISOString().slice(0, 10)
EndDateSlice(month, zone) ==
    LET parts == Split(month, "-")
    IN  SubSeq(ToISOString(NewDateDayZero(parts[1], parts[2]), zone), 1, 10)

\* A query: its table, whether its text ends in AND branch_id = $3, and the
\* parameters bound to it.
Query(table, byBranch, params) ==
    [table |-> table, byBranch |-> byBranch, params |-> params]

\* The database rejects a query whose date parameters name no calendar day
\* or whose parameters are not as many as its text uses.
Executable(q) ==
    /\ PgDate(q.params[1]) # None
    /\ PgDate(q.params[2]) # None
    /\ Len(q.params) = IF q.byBranch THEN 3 ELSE 2

\* WHERE <date> >= $1 AND <date> <= $2 [AND branch_id = $3]
Matching(rows, q) ==
    { r \in rows :
        /\ DateLE(PgDate(q.params[1])[1], r.date)
        /\ DateLE(r.date, PgDate(q.params[2])[1])
        /\ q.byBranch => r.branch_id = q.params[3] }

\* SELECT COALESCE(SUM(...), 0) ...: the one row of the result, as text.
SumQuery(rows, q) == NumericText(SumAmount(Matching(rows, q)))

\* ProfitLossQueries with the branch clause on the collections query only.
ProfitLossQueriesCollectionsOnly(startDate, endDate, branchId) ==
    LET byBranch == ~Falsy(branchId)
        params == IF byBranch
                  THEN <<startDate, endDate, ParseInt(branchId[1])[1]>>
                  ELSE <<startDate, endDate>>
    IN  [collections |-> Query("student_membership_history", byBranch, params),
         expenses |-> Query("expenses", FALSE, <<startDate, endDate>>)]

\* The two queries of GET /profit-loss, both with the branch clause when a
\* branchId was given.
ProfitLossQueries(startDate, endDate, branchId) ==
    LET byBranch == ~Falsy(branchId)
        params == IF byBranch
                  THEN <<startDate, endDate, ParseInt(branchId[1])[1]>>
                  ELSE <<startDate, endDate>>
    IN  [collections |-> Query("student_membership_history", byBranch, params),
         expenses |-> Query("expenses", byBranch, params)]

\* ProfitLossBody with the difference taken the wrong way round.
ProfitLossBodySwapped(month, collectedText, expensesText) ==
    LET totalCollected == OrZero(ParseFloat(collectedText))
        totalExpenses == OrZero(ParseFloat(expensesText))
    IN  [month |-> month,
         totalCollected |-> totalCollected,
         totalExpenses |-> totalExpenses,
         profitLoss |-> totalExpenses - totalCollected]

\* The summary of GET /profit-loss from the two sums the database returned.
ProfitLossBody(month, collectedText, expensesText) ==
    LET totalCollected == OrZero(ParseFloat(collectedText))
        totalExpenses == OrZero(ParseFloat(expensesText))
    IN  [month |-> month,
         totalCollected |-> totalCollected,
         totalExpenses |-> totalExpenses,
         profitLoss |-> totalCollected - totalExpenses]

ServerError == [message |-> "Server error", error |-> "query failed"]

\* GET /profit-loss up to its first await.
ProfitLossRequest(month, branchId) ==
    LET req == [route |-> "profit-loss", month |-> month, branchId |-> branchId]
        g == checkAdminOrStaff(sessionUser)
    IN  /\ CanAwait
        /\ UNCHANGED <<sessionUser, db, tz, lastAuth>>
        /\ IF ~g.next
           THEN out' = GuardOutcome(req, g) /\ UNCHANGED inflight
           ELSE IF MonthRejected(month)
           THEN /\ out' = Respond(req, 400,
                    [message |-> "Invalid month format, use YYYY-MM"], <<>>)
                /\ UNCHANGED inflight
           ELSE IF ~Falsy(branchId) /\ ParseInt(branchId[1]) = NaN
           THEN /\ out' = Respond(req, 400,
                    [message |-> "Invalid branch ID"], <<>>)
                /\ UNCHANGED inflight
           ELSE LET qs == ProfitLossQueries(StartDate(month[1]),
                                            EndDate(month[1], tz), branchId)
                IN  /\ Await([req |-> req, pc |-> "collections",
                              pending |-> qs,
                              queries |-> <<qs.collections>>,
                              collected |-> <<>>])
                    /\ out' = NoResponse

\* The collections query returns or fails; on a result the expenses query
\* is issued.
ProfitLossCollections(r, fails) ==
    /\ r \in BagToSet(inflight) /\ r.pc = "collections"
    /\ UNCHANGED <<sessionUser, db, tz, lastAuth>>
    /\ IF fails \/ ~Executable(r.pending.collections)
       THEN /\ inflight' = Resume(r)
            /\ out' = Respond(r.req, 500, ServerError, r.queries)
       ELSE /\ inflight' = Resume(r) (+) SetToBag({
                  [r EXCEPT !.pc = "expenses",
                            !.collected =
                                SumQuery(db.history, r.pending.collections),
                            !.queries = Append(r.queries, r.pending.expenses)]})
            /\ out' = NoResponse

\* ProfitLossExpenses that ends the session as it answers.
ProfitLossExpensesEndsSession(r, fails) ==
    /\ r \in BagToSet(inflight) /\ r.pc = "expenses"
    /\ sessionUser' = None
    /\ UNCHANGED <<db, tz, lastAuth>>
    /\ inflight' = Resume(r)
    /\ IF fails \/ ~Executable(r.pending.expenses)
       THEN out' = Respond(r.req, 500, ServerError, r.queries)
       ELSE out' = Respond(r.req, 200,
                ProfitLossBody(r.req.month[1], r.collected,
                               SumQuery(db.expenses, r.pending.expenses)),
                r.queries)

\* The expenses query returns or fails; on a result the summary is sent.
ProfitLossExpenses(r, fails) ==
    /\ r \in BagToSet(inflight) /\ r.pc = "expenses"
    /\ UNCHANGED <<sessionUser, db, tz, lastAuth>>
    /\ inflight' = Resume(r)
    /\ IF fails \/ ~Executable(r.pending.expenses)
       THEN out' = Respond(r.req, 500, ServerError, r.queries)
       ELSE out' = Respond(r.req, 200,
                ProfitLossBody(r.req.month[1], r.collected,
                               SumQuery(db.expenses, r.pending.expenses)),
                r.queries)

\* SUM(CASE WHEN st.type = kind THEN st.amount END) over a student's rows
\* in the range, COALESCEd to 0.
SumOfType(rows, kind) == SumAmount({t \in rows : t.type = kind})

RECURSIVE OrderByName(_)
OrderByName(rows) ==
    IF rows = {} THEN <<>>
    ELSE LET r == CHOOSE x \in rows : \A y \in rows :
                      NameRank(x.student_name) <= NameRank(y.student_name)
         IN  <<r>> \o OrderByName(rows \ {r})

\* The rows of the monthly-collections query: one per student with a
\* transaction dated BETWEEN $1 AND $2, ordered by name.
CollectionsQuery(data, q) ==
    LET inRange == { t \in data.transactions :
                       /\ DateLE(PgDate(q.params[1])[1], t.date)
                       /\ DateLE(t.date, PgDate(q.params[2])[1]) }
        joined == { s \in data.students :
                       \E t \in inRange : t.student_id = s.id }
        mine(s) == { t \in inRange : t.student_id = s.id }
    IN  OrderByName({ [student_id |-> s.id, student_name |-> s.name,
                       total_collected |->
                           NumericText(SumOfType(mine(s), "payment")),
                       total_due |-> NumericText(SumOfType(mine(s), "due")),
                       total_fee |-> NumericText(s.total_fee),
                       amount_paid |-> NumericText(s.amount_paid),
                       due_amount |-> NumericText(s.due_amount)]
                      : s \in joined })

\* rows.map(r => ({...})) (email and phone, copied through, are left out)
MapRecords(rows) ==
    [ i \in 1..Len(rows) |->
        [studentId |-> rows[i].student_id,
         studentName |-> rows[i].student_name,
         totalFee |-> OrZero(ParseFloat(rows[i].total_fee)),
         amountPaid |-> OrZero(ParseFloat(rows[i].amount_paid)),
         dueAmount |-> OrZero(ParseFloat(rows[i].due_amount)),
         collected |-> ParseFloat(rows[i].total_collected)[1],
         due |-> ParseFloat(rows[i].total_due)[1]] ]

\* The query of GET /monthly-collections: branchId is not read.
MonthlyCollectionsQuery(start, end, branchId) ==
    Query("student_transactions", FALSE, <<start, end>>)

\* GET /monthly-collections up to its await.
MonthlyCollectionsRequest(month, branchId) ==
    LET req == [route |-> "monthly-collections", month |-> month,
                branchId |-> branchId]
        g == checkAdminOrStaff(sessionUser)
    IN  /\ CanAwait
        /\ UNCHANGED <<sessionUser, db, tz, lastAuth>>
        /\ IF ~g.next
           THEN out' = GuardOutcome(req, g) /\ UNCHANGED inflight
           ELSE IF MonthRejected(month)
           THEN /\ out' = Respond(req, 400,
                    [message |-> "Invalid month format, use YYYY-MM"], <<>>)
                /\ UNCHANGED inflight
           ELSE LET q == MonthlyCollectionsQuery(StartDate(month[1]),
                            EndDateSlice(month[1], tz), branchId)
                IN  /\ Await([req |-> req, pc |-> "records",
                              pending |-> q, queries |-> <<q>>])
                    /\ out' = NoResponse

\* MonthlyCollectionsRecords without its catch: a failed query leaves the
\* request unanswered.
MonthlyCollectionsRecordsNoCatch(r, fails) ==
    /\ r \in BagToSet(inflight) /\ r.pc = "records"
    /\ UNCHANGED <<sessionUser, db, tz, lastAuth>>
    /\ inflight' = Resume(r)
    /\ IF fails \/ ~Executable(r.pending)
       THEN out' = NoResponse
       ELSE out' = Respond(r.req, 200,
                [month |-> r.req.month[1],
                 records |-> MapRecords(CollectionsQuery(db, r.pending))],
                r.queries)

\* The monthly-collections query returns or fails.
MonthlyCollectionsRecords(r, fails) ==
    /\ r \in BagToSet(inflight) /\ r.pc = "records"
    /\ UNCHANGED <<sessionUser, db, tz, lastAuth>>
    /\ inflight' = Resume(r)
    /\ IF fails \/ ~Executable(r.pending)
       THEN out' = Respond(r.req, 500, ServerError, r.queries)
       ELSE out' = Respond(r.req, 200,
                [month |-> r.req.month[1],
                 records |-> MapRecords(CollectionsQuery(db, r.pending))],
                r.queries)

----------------------------------------------------------------------------
(* Auth routes (auth.js)                                                   *)

UsersQuery(username) == Query("users", FALSE, <<username>>)

\* POST /login up to its await.
LoginRequest(username, password) ==
    LET req == [route |-> "login", username |-> username,
                password |-> password]
    IN  /\ CanAwait
        /\ UNCHANGED <<sessionUser, db, tz, lastAuth>>
        /\ IF FalsyField(username) \/ FalsyField(password)
           THEN /\ out' = Respond(req, 400,
                    [message |-> "Username and password are required"], <<>>)
                /\ UNCHANGED inflight
           ELSE /\ Await([req |-> req, pc |-> "users",
                          queries |-> <<UsersQuery(username[1])>>])
                /\ out' = NoResponse

\* SessionUserOf forgetting the role.
SessionUserOfNoRole(user) ==
    [id |-> user.id, username |-> user.username, role |-> "undefined"]

\* The object stored as req.session.user.
SessionUserOf(user) ==
    [id |-> user.id, username |-> user.username, role |-> user.role]

\* A user object of the login response that is the row of the users table.
LoginResponseUserWholeRow(user) ==
    [id |-> user.id, username |-> user.username, role |-> user.role,
     password |-> user.password]

\* The user object of the login response.
LoginResponseUser(user) ==
    [id |-> user.id, username |-> user.username, role |-> user.role]

\* LoginOutcome telling an unknown username from a wrong password.
LoginOutcomeNamesUnknown(req, queries, rows, session) ==
    LET user == CHOOSE u \in rows : TRUE
    IN  IF rows = {}
        THEN [out |-> Respond(req, 401, [message |-> "Unknown user"],
                              queries),
              session |-> session, granted |-> None]
        ELSE IF req.password[1] # user.password
        THEN [out |-> Respond(req, 401, [message |-> "Invalid credentials"],
                              queries),
              session |-> session, granted |-> None]
        ELSE [out |-> Respond(req, 200,
                         [message |-> "Login successful",
                          user |-> LoginResponseUser(user)], queries),
              session |-> Some(SessionUserOf(user)),
              granted |-> Some(LoginResponseUser(user))]

\* LoginOutcome dropping the session on a wrong password.
LoginOutcomeClearsSession(req, queries, rows, session) ==
    LET user == CHOOSE u \in rows : TRUE
        refused == Respond(req, 401, [message |-> "Invalid credentials"],
                           queries)
    IN  IF rows = {}
        THEN [out |-> refused, session |-> session, granted |-> None]
        ELSE IF req.password[1] # user.password
        THEN [out |-> refused, session |-> None, granted |-> None]
        ELSE [out |-> Respond(req, 200,
                         [message |-> "Login successful",
                          user |-> LoginResponseUser(user)], queries),
              session |-> Some(SessionUserOf(user)),
              granted |-> Some(LoginResponseUser(user))]

\* Lines 58-78 of the login handler, once the users query has returned
\* rows: the response, the session user afterwards and, for the history,
\* the user object a successful login returned.
LoginOutcome(req, queries, rows, session) ==
    LET user == CHOOSE u \in rows : TRUE
        refused == Respond(req, 401, [message |-> "Invalid credentials"],
                           queries)
    IN  IF rows = {}
        THEN [out |-> refused, session |-> session, granted |-> None]
        ELSE IF req.password[1] # user.password
        THEN [out |-> refused, session |-> session, granted |-> None]
        ELSE [out |-> Respond(req, 200,
                         [message |-> "Login successful",
                          user |-> LoginResponseUser(user)], queries),
              session |-> Some(SessionUserOf(user)),
              granted |-> Some(LoginResponseUser(user))]

\* The users query returns or fails.
LoginResult(r, fails) ==
    LET rows == { u \in db.users : u.username = r.req.username[1] }
        o == LoginOutcome(r.req, r.queries, rows, sessionUser)
    IN  /\ r \in BagToSet(inflight) /\ r.pc = "users"
        /\ UNCHANGED <<db, tz>>
        /\ inflight' = Resume(r)
        /\ IF fails
           THEN /\ out' = Respond(r.req, 500,
                    [message |-> "Server error during login",
                     error |-> "query failed"], r.queries)
                /\ UNCHANGED <<sessionUser, lastAuth>>
           ELSE /\ out' = o.out
                /\ sessionUser' = o.session
                /\ lastAuth' = IF o.granted = None THEN lastAuth
                               ELSE [event |-> "login", user |-> o.granted]

\* GET /logout up to the call of req.session.destroy.
LogoutRequest ==
    /\ CanAwait
    /\ UNCHANGED <<sessionUser, db, tz, lastAuth>>
    /\ Await([req |-> [route |-> "logout"], pc |-> "destroy",
              queries |-> <<>>])
    /\ out' = NoResponse

\* LogoutCallback answering without the session having been destroyed.
LogoutCallbackKeepsSession(r, err) ==
    /\ r \in BagToSet(inflight) /\ r.pc = "destroy"
    /\ UNCHANGED <<db, tz>>
    /\ inflight' = Resume(r)
    /\ IF err
       THEN /\ out' = Respond(r.req, 500,
                [message |-> "Could not log out, please try again."], <<>>)
            /\ UNCHANGED <<sessionUser, lastAuth>>
       ELSE /\ out' = Respond(r.req, 200,
                [message |-> "Logout successful"], <<>>)
            /\ UNCHANGED sessionUser
            /\ lastAuth' = [event |-> "logout", user |-> None]

\* The callback of req.session.destroy: without an error the session is
\* gone from the store, with one it is still there.
LogoutCallback(r, err) ==
    /\ r \in BagToSet(inflight) /\ r.pc = "destroy"
    /\ UNCHANGED <<db, tz>>
    /\ inflight' = Resume(r)
    /\ IF err
       THEN /\ out' = Respond(r.req, 500,
                [message |-> "Could not log out, please try again."], <<>>)
            /\ UNCHANGED <<sessionUser, lastAuth>>
       ELSE /\ out' = Respond(r.req, 200,
                [message |-> "Logout successful"], <<>>)
            /\ sessionUser' = None
            /\ lastAuth' = [event |-> "logout", user |-> None]

\* The body of GET /status.
StatusBody(user) ==
    IF user # None
    THEN [isAuthenticated |-> TRUE,
          user |-> Some([id |-> user[1].id, username |-> user[1].username,
                         role |-> user[1].role])]
    ELSE [isAuthenticated |-> FALSE, user |-> None]

\* GET /status
StatusRequest ==
    /\ UNCHANGED <<sessionUser, db, tz, inflight, lastAuth>>
    /\ out' = Respond([route |-> "status"], 200, StatusBody(sessionUser), <<>>)

\* A request to a route behind checkAdmin, authenticateUser or
\* checkPermission (the routes themselves are outside these files).
GuardedRequest(guard, bound) ==
    LET req == [route |-> "guarded", guard |-> guard]
    IN  /\ guard \in {"checkAdmin", "authenticateUser", "checkPermission"}
        /\ UNCHANGED <<sessionUser, db, tz, inflight, lastAuth>>
        /\ out' = GuardOutcome(req,
                    IF guard = "checkAdmin" THEN checkAdmin(sessionUser)
                    ELSE IF guard = "authenticateUser"
                    THEN authenticateUser(sessionUser)
                    ELSE checkPermission(sessionUser, bound))

Next ==
    \/ \E month \in MonthInputs, branchId \in BranchInputs :
          ProfitLossRequest(month, branchId)
          /\ UNCHANGED elsewhere
    \/ \E r \in BagToSet(inflight), fails \in BOOLEAN :
          ProfitLossCollections(r, fails)
          /\ UNCHANGED elsewhere
    \/ \E r \in BagToSet(inflight), fails \in BOOLEAN :
          ProfitLossExpenses(r, fails)
          /\ UNCHANGED elsewhere
    \/ \E month \in MonthInputs, branchId \in BranchInputs :
          MonthlyCollectionsRequest(month, branchId)
          /\ UNCHANGED elsewhere
    \/ \E r \in BagToSet(inflight), fails \in BOOLEAN :
          MonthlyCollectionsRecords(r, fails)
          /\ UNCHANGED elsewhere
    \/ \E username \in UsernameInputs, password \in PasswordInputs :
          LoginRequest(username, password)
          /\ UNCHANGED elsewhere
    \/ \E r \in BagToSet(inflight), fails \in BOOLEAN : LoginResult(r, fails)
          /\ UNCHANGED elsewhere
    \/ LogoutRequest
          /\ UNCHANGED elsewhere
    \/ \E r \in BagToSet(inflight), err \in BOOLEAN : LogoutCallback(r, err)
          /\ UNCHANGED elsewhere
    \/ StatusRequest
          /\ UNCHANGED elsewhere
    \/ \E guard \in Guards, bound \in BOOLEAN : GuardedRequest(guard, bound)
          /\ UNCHANGED elsewhere

----------------------------------------------------------------------------
(* Text and lists on the client                                            *)

\* s.toLowerCase(), over the letters the names of this model use.
ToLowerCase(s) ==
    [i \in 1..Len(s) |->
        CASE s[i] = "A" -> "a" [] s[i] = "B" -> "b" [] s[i] = "N" -> "n"
          [] s[i] = "R" -> "r" [] s[i] = "Z" -> "z" [] OTHER -> s[i]]

\* s.includes(t)
Includes(s, t) ==
    \E i \in 1..(Len(s) + 1) :
        i + Len(t) - 1 <= Len(s) /\ SubSeq(s, i, i + Len(t) - 1) = t

\* list.slice(from, to) for 0 <= from <= to
Slice(list, from, to) ==
    SubSeq(list, from + 1, IF to < Len(list) THEN to ELSE Len(list))

\* Math.ceil(n / d) for n >= 0 and d > 0
Ceil(n, d) == (n + d - 1) \div d

Min(a, b) == IF a < b THEN a ELSE b
Max(a, b) == IF a > b THEN a ELSE b

----------------------------------------------------------------------------
(* All Students page (pages/AllStudents.tsx)                               *)

\* Students on the server when the page is opened.
NumStudents == 11

\* getStudents calls that may be awaiting their response at a time, and
\* deletions a run confirms.
MaxFetches == 1
MaxDeletes == 2

\* new Date() on the client: midday of 20 January 2024.
Now == [date |-> Date(2024, 1, 20), minutes |-> 720]

\* The students as the server lists them, by id: every fourth one without
\* a registration number, every fifth without a seat, the fifth without a
\* creation date, every third with a membership that ended.
StudentSummaries ==
    [i \in 1..NumStudents |->
        [id |-> i,
         name |-> IF i % 2 = 1 THEN <<"A", "s", "h", "a">>
                  ELSE <<"B", "i", "l", "a", "l">>,
         phone |-> <<"9", "0">> \o NatText(i),
         registrationNumber |->
             IF i % 4 = 0 THEN None ELSE Some(<<"R">> \o NatText(i)),
         membershipEnd |-> IF i % 3 = 0 THEN Date(2024, 1, 20 - (i \div 3))
                           ELSE Date(2024, 2, i),
         createdAt |->
             IF i = 5 THEN None ELSE Some(Date(2024, 1, 1 + (i % 7))),
         status |-> IF i = 7 THEN "expired" ELSE "active",
         seatNumber |-> IF i % 5 = 0 THEN None ELSE Some(NatText(12 - i)),
         branchId |-> IF i <= 3 THEN 2 ELSE 1]]

\* Values of the page's inputs.
SearchTerms == { <<>>, <<"A", "s">> }
BranchChoices == { <<>>, <<"2">> }
DateChoices == { <<>>, <<"2", "0", "2", "4", "-", "0", "1", "-", "0", "3">> }
PageSizes == { <<"1", "0">>, <<"2", "5">> }
SortColumns == {"createdAt"}
DeleteChoices == {1, NumStudents}

\* api.getStudents(fromDate, toDate, branchId) against the server's table:
\* the students of the branch created within the dates, in the order of
\* their ids.
getStudents(fromDate, toDate, branchId, table) ==
    LET from == IF fromDate = None THEN None ELSE PgDate(fromDate[1])
        to == IF toDate = None THEN None ELSE PgDate(toDate[1])
    IN  SelectSeq(StudentSummaries,
            LAMBDA s :
                /\ s.id \in table
                /\ branchId # None => s.branchId = branchId[1]
                /\ from # None =>
                      s.createdAt # None /\ DateLE(from[1], s.createdAt[1])
                /\ to # None =>
                      s.createdAt # None /\ DateLE(s.createdAt[1], to[1]))

\* x || undefined of a text input
OrUndefined(x) == IF x = <<>> THEN None ELSE Some(x)

\* membershipEndDate < currentDate: the end date is the midnight that
\* begins its day.
IsExpired(membershipEnd) ==
    \/ membershipEnd # Now.date /\ DateLE(membershipEnd, Now.date)
    \/ membershipEnd = Now.date /\ Now.minutes > 0

\* A mapping of a response that takes the server's status as it is.
UpdatedStudentKeepsStatus(student) ==
    [id |-> student.id,
     name |-> student.name,
     phone |-> student.phone,
     registrationNumber |->
         IF student.registrationNumber = None THEN <<"N", "/", "A">>
         ELSE student.registrationNumber[1],
     membershipEnd |-> student.membershipEnd,
     createdAt |-> student.createdAt,
     status |-> student.status,
     seatNumber |-> student.seatNumber]

\* What fetchStudents makes of one student of a response.
UpdatedStudent(student) ==
    [id |-> student.id,
     name |-> student.name,
     phone |-> student.phone,
     registrationNumber |->
         IF student.registrationNumber = None THEN <<"N", "/", "A">>
         ELSE student.registrationNumber[1],
     membershipEnd |-> student.membershipEnd,
     createdAt |-> student.createdAt,
     status |-> IF IsExpired(student.membershipEnd) THEN "expired"
                ELSE student.status,
     seatNumber |-> student.seatNumber]

\* The students state holds the ids of its rows; a row of it is what
\* fetchStudents made of the server's student of that id.
Students == [i \in 1..NumStudents |-> UpdatedStudent(StudentSummaries[i])]

\* The text of the status cell of a row.
StatusShown(student) ==
    IF student.status = "active" THEN "Active" ELSE "Expired"

\* The list fetchStudents stores for a response.
UpdatedStudents(response) == [i \in 1..Len(response) |-> response[i].id]

\* The comparator of sortedStudents: negative, zero or positive.
CompareStudents(p, a, b) ==
    IF p.sortColumn = Some("createdAt")
    THEN LET timeA == IF a.createdAt = None THEN Now.date ELSE a.createdAt[1]
             timeB == IF b.createdAt = None THEN Now.date ELSE b.createdAt[1]
             sign == IF timeA = timeB THEN 0
                     ELSE IF DateLE(timeA, timeB) THEN -1 ELSE 1
         IN  IF p.createdAtSortDirection = "asc" THEN sign ELSE 0 - sign
    ELSE IF p.sortColumn = Some("seatNumber")
    THEN LET seatA == IF a.seatNumber = None THEN -1
                      ELSE DigitsValue(a.seatNumber[1])
             seatB == IF b.seatNumber = None THEN -1
                      ELSE DigitsValue(b.seatNumber[1])
             sign == IF seatA = seatB THEN 0
                     ELSE IF seatA < seatB THEN -1 ELSE 1
         IN  IF p.seatSortDirection = "asc" THEN sign ELSE 0 - sign
    ELSE 0

\* [...list].sort(comparator): a stable sort.
RECURSIVE SortStudents(_, _)
SortStudents(p, list) ==
    IF list = <<>> THEN <<>>
    ELSE LET n == Len(list)
             front == SortStudents(p, SubSeq(list, 1, n - 1))
             k == Cardinality({ i \in 1..(n - 1) :
                    CompareStudents(p, Students[front[i]],
                                    Students[list[n]]) <= 0 })
         IN  SubSeq(front, 1, k) \o <<list[n]>> \o SubSeq(front, k + 1, n - 1)

sortedStudents(p) == SortStudents(p, p.students)

filteredStudents(p) ==
    SelectSeq(sortedStudents(p),
        LAMBDA id :
            LET student == Students[id]
                term == ToLowerCase(p.searchTerm)
            IN  \/ Includes(ToLowerCase(student.name), term)
                \/ Includes(ToLowerCase(student.phone), term)
                \/ /\ student.registrationNumber # <<>>
                   /\ Includes(ToLowerCase(student.registrationNumber), term))

indexOfLastStudent(p) == p.currentPage * p.studentsPerPage
indexOfFirstStudent(p) == indexOfLastStudent(p) - p.studentsPerPage

currentStudents(p) ==
    Slice(filteredStudents(p), indexOfFirstStudent(p), indexOfLastStudent(p))

\* A page count that leaves out a last page that is not full.
totalPagesOfFullPages(p) == Len(filteredStudents(p)) \div p.studentsPerPage

totalPages(p) == Ceil(Len(filteredStudents(p)), p.studentsPerPage)

\* The page once mounted: both effects have run, the first fetch is awaited.
AllStudentsInit ==
    /\ allStudents =
          [students |-> <<>>, selectedBranchId |-> None, loading |-> TRUE,
           searchTerm |-> <<>>, currentPage |-> 1, studentsPerPage |-> 10,
           fromDate |-> <<>>, toDate |-> <<>>, sortColumn |-> None,
           createdAtSortDirection |-> "desc", seatSortDirection |-> "asc"]
    /\ studentCalls =
          SetToBag({[api |-> "getStudents", fromDate |-> None,
                     toDate |-> None, branchId |-> None]})
    /\ studentTable = 1..NumStudents

\* The calls of one kind among those awaited.
Awaited(calls, api) ==
    BagCardinality([c \in { d \in BagToSet(calls) : d.api = api } |->
                        CopiesIn(c, calls)])

\* A change of selectedBranchId, fromDate or toDate to the state p: the
\* effects set the page to 1 and start fetchStudents with the new values.
fetchStudents(p) ==
    /\ Awaited(studentCalls, "getStudents") < MaxFetches
    /\ allStudents' = [p EXCEPT !.currentPage = 1, !.loading = TRUE]
    /\ studentCalls' = studentCalls (+)
          SetToBag({[api |-> "getStudents",
                     fromDate |-> OrUndefined(p.fromDate),
                     toDate |-> OrUndefined(p.toDate),
                     branchId |-> p.selectedBranchId]})
    /\ UNCHANGED studentTable

\* The response to getStudents arrives, or the call fails.
GetStudentsResult(call, fails) ==
    /\ call \in BagToSet(studentCalls) /\ call.api = "getStudents"
    /\ studentCalls' = studentCalls (-) SetToBag({call})
    /\ UNCHANGED studentTable
    /\ IF fails
       THEN allStudents' = [allStudents EXCEPT !.loading = FALSE]
       ELSE allStudents' = [allStudents EXCEPT
                !.students = UpdatedStudents(
                    getStudents(call.fromDate, call.toDate, call.branchId,
                                studentTable)),
                !.loading = FALSE]

SetSearchTerm(value) ==
    /\ value # allStudents.searchTerm
    /\ allStudents' = [allStudents EXCEPT !.searchTerm = value,
                                          !.currentPage = 1]
    /\ UNCHANGED <<studentCalls, studentTable>>

\* setSelectedBranchId(value ? Number(value) : undefined)
SetSelectedBranchId(value) ==
    LET id == IF value = <<>> THEN None ELSE ToNumber(value)
    IN  /\ id # allStudents.selectedBranchId
        /\ fetchStudents([allStudents EXCEPT !.selectedBranchId = id])

SetFromDate(value) ==
    /\ value # allStudents.fromDate
    /\ fetchStudents([allStudents EXCEPT !.fromDate = value])

SetToDate(value) ==
    /\ value # allStudents.toDate
    /\ fetchStudents([allStudents EXCEPT !.toDate = value])

\* A sort click that flips the direction of both columns.
handleSortFlipsBoth(column) ==
    /\ ~allStudents.loading
    /\ allStudents' =
          [allStudents EXCEPT
              !.sortColumn = Some(column),
              !.createdAtSortDirection = IF @ = "asc" THEN "desc" ELSE "asc",
              !.seatSortDirection = IF @ = "asc" THEN "desc" ELSE "asc"]
    /\ UNCHANGED <<studentCalls, studentTable>>

handleSort(column) ==
    /\ ~allStudents.loading
    /\ allStudents' =
          IF column = "createdAt"
          THEN [allStudents EXCEPT
                  !.sortColumn = Some(column),
                  !.createdAtSortDirection =
                      IF @ = "asc" THEN "desc" ELSE "asc"]
          ELSE [allStudents EXCEPT
                  !.sortColumn = Some(column),
                  !.seatSortDirection = IF @ = "asc" THEN "desc" ELSE "asc"]
    /\ UNCHANGED <<studentCalls, studentTable>>

\* The pager is rendered.
PagerShown == ~allStudents.loading /\ Len(filteredStudents(allStudents)) > 0

\* A change of the page size that leaves the page where it is.
SetStudentsPerPageKeepsPage(value) ==
    /\ PagerShown
    /\ ToNumber(value)[1] # allStudents.studentsPerPage
    /\ allStudents' = [allStudents EXCEPT
                          !.studentsPerPage = ToNumber(value)[1]]
    /\ UNCHANGED <<studentCalls, studentTable>>

SetStudentsPerPage(value) ==
    /\ PagerShown
    /\ ToNumber(value)[1] # allStudents.studentsPerPage
    /\ allStudents' = [allStudents EXCEPT
                          !.studentsPerPage = ToNumber(value)[1],
                          !.currentPage = 1]
    /\ UNCHANGED <<studentCalls, studentTable>>

PreviousPage ==
    /\ PagerShown
    /\ allStudents.currentPage # 1
    /\ allStudents' = [allStudents EXCEPT !.currentPage = Max(@ - 1, 1)]
    /\ UNCHANGED <<studentCalls, studentTable>>

NextPage ==
    /\ PagerShown
    /\ allStudents.currentPage # totalPages(allStudents)
    /\ allStudents' = [allStudents EXCEPT
                          !.currentPage = Min(@ + 1, totalPages(allStudents))]
    /\ UNCHANGED <<studentCalls, studentTable>>

\* A click on the bin of a row of the page shown, and the answer to
\* window.confirm; the handler keeps the students of the render it was
\* created in.
handleDelete(id, confirmed) ==
    /\ ~allStudents.loading
    /\ LET shown == currentStudents(allStudents)
       IN  id \in { shown[i] : i \in 1..Len(shown) }
    /\ UNCHANGED <<allStudents, studentTable>>
    /\ IF confirmed
       THEN /\ Cardinality((1..NumStudents) \ studentTable) +
               Awaited(studentCalls, "deleteStudent") < MaxDeletes
            /\ studentCalls' = studentCalls (+)
                  SetToBag({[api |-> "deleteStudent", id |-> id,
                             students |-> allStudents.students]})
       ELSE UNCHANGED studentCalls

\* deleteStudent returns: the server has removed the student, or the call
\* failed (as it does for a student already removed).
DeleteStudentResult(call, fails) ==
    /\ call \in BagToSet(studentCalls) /\ call.api = "deleteStudent"
    /\ studentCalls' = studentCalls (-) SetToBag({call})
    /\ IF fails \/ call.id \notin studentTable
       THEN UNCHANGED <<allStudents, studentTable>>
       ELSE /\ studentTable' = studentTable \ {call.id}
            /\ allStudents' = [allStudents EXCEPT
                  !.students = SelectSeq(call.students,
                                         LAMBDA student : student # call.id)]

StudentsNext ==
    \/ \E value \in SearchTerms : SetSearchTerm(value) /\ UNCHANGED offStudents
    \/ \E value \in BranchChoices :
          SetSelectedBranchId(value) /\ UNCHANGED offStudents
    \/ \E value \in DateChoices : SetFromDate(value) /\ UNCHANGED offStudents
    \/ \E value \in DateChoices : SetToDate(value) /\ UNCHANGED offStudents
    \/ \E call \in BagToSet(studentCalls), fails \in BOOLEAN :
          GetStudentsResult(call, fails) /\ UNCHANGED offStudents
    \/ \E column \in SortColumns : handleSort(column) /\ UNCHANGED offStudents
    \/ \E value \in PageSizes :
          SetStudentsPerPage(value) /\ UNCHANGED offStudents
    \/ PreviousPage /\ UNCHANGED offStudents
    \/ NextPage /\ UNCHANGED offStudents
    \/ \E id \in DeleteChoices, confirmed \in BOOLEAN :
          handleDelete(id, confirmed) /\ UNCHANGED offStudents
    \/ \E call \in BagToSet(studentCalls), fails \in BOOLEAN :
          DeleteStudentResult(call, fails) /\ UNCHANGED offStudents

\* The page as it is browsed: searching, changing branch, sorting by either
\* column and paging, with no deletion.
BrowsingNext ==
    \/ \E value \in SearchTerms : SetSearchTerm(value) /\ UNCHANGED offStudents
    \/ \E value \in BranchChoices :
          SetSelectedBranchId(value) /\ UNCHANGED offStudents
    \/ \E call \in BagToSet(studentCalls), fails \in BOOLEAN :
          GetStudentsResult(call, fails) /\ UNCHANGED offStudents
    \/ \E column \in {"createdAt", "seatNumber"} :
          handleSort(column) /\ UNCHANGED offStudents
    \/ \E value \in PageSizes :
          SetStudentsPerPage(value) /\ UNCHANGED offStudents
    \/ PreviousPage /\ UNCHANGED offStudents
    \/ NextPage /\ UNCHANGED offStudents

----------------------------------------------------------------------------
(* Collection & Due page (pages/CollectionDue.tsx)                         *)

\* The toasts of the page are kept as the last one shown. The search box
\* and the "only due" checkbox, which hide rows without changing the list,
\* are left as they start: every row of the list is shown.

\* The server's collections when the page is opened: the static part of a
\* row by historyId, and what has been paid on it.
CollectionRows ==
    << [historyId |-> 1, studentId |-> 1, month |-> "2024-01",
        branchId |-> 1, totalFee |-> 100],
       [historyId |-> 2, studentId |-> 2, month |-> "2024-01",
        branchId |-> 2, totalFee |-> 80],
       [historyId |-> 3, studentId |-> 1, month |-> "2024-02",
        branchId |-> 1, totalFee |-> 50] >>

CollectionTableAtStart ==
    << [amountPaid |-> 0, dueAmount |-> 100, cash |-> 0, online |-> 0],
       [amountPaid |-> 80, dueAmount |-> 0, cash |-> 80, online |-> 0],
       [amountPaid |-> 0, dueAmount |-> 50, cash |-> 0, online |-> 0] >>

\* Values of the page's inputs.
MonthChoices == {"2024-01", "2024-02"}
MethodChoices == {"cash", "online"}
AmountInputs == { <<>>, <<"0">>, <<"6", "0">>, <<"1", "5", "0">> }

\* api.getCollections(params) against the server's table: the rows of the
\* month and branch asked for, their amounts as numeric text.
getCollections(params, table) ==
    LET rows == SelectSeq(CollectionRows,
                    LAMBDA c :
                        /\ params.month # None => c.month = params.month[1]
                        /\ params.branchId # None =>
                              c.branchId = params.branchId[1])
    IN  [i \in 1..Len(rows) |->
            [historyId |-> rows[i].historyId,
             studentId |-> rows[i].studentId,
             totalFee |-> NumericText(rows[i].totalFee),
             amountPaid |-> NumericText(table[rows[i].historyId].amountPaid),
             dueAmount |-> NumericText(table[rows[i].historyId].dueAmount),
             cash |-> NumericText(table[rows[i].historyId].cash),
             online |-> NumericText(table[rows[i].historyId].online)]]

\* The list loadCollections stores for a response: Number(x) || 0 of each
\* amount.
mappedData(data) ==
    [i \in 1..Len(data) |->
        [historyId |-> data[i].historyId,
         studentId |-> data[i].studentId,
         totalFee |-> OrZero(ToNumber(data[i].totalFee)),
         amountPaid |-> OrZero(ToNumber(data[i].amountPaid)),
         dueAmount |-> OrZero(ToNumber(data[i].dueAmount)),
         cash |-> OrZero(ToNumber(data[i].cash)),
         online |-> OrZero(ToNumber(data[i].online))]]

\* The page once mounted: the effect has set loading and called
\* loadCollections for the current month and all branches.
CollectionDueInit ==
    /\ collectionDue =
          [collections |-> <<>>, loading |-> TRUE, isSubmitting |-> FALSE,
           selectedMonth |-> "2024-01", selectedBranchId |-> None,
           isPayModalOpen |-> FALSE, selectedCollection |-> None,
           paymentAmount |-> <<>>, paymentMethod |-> None, toast |-> ""]
    /\ collectionCalls =
          SetToBag({[api |-> "getCollections",
                     params |-> [month |-> Some("2024-01"),
                                 branchId |-> None]]})
    /\ collectionTable = CollectionTableAtStart

\* The modal is rendered; its backdrop covers the page.
PayModalShown ==
    collectionDue.isPayModalOpen /\ collectionDue.selectedCollection # None

\* The filters and the table are rendered and not covered.
CollectionsShown == ~collectionDue.loading /\ ~PayModalShown

\* A change of selectedMonth or selectedBranchId to the state p: the effect
\* sets loading and calls loadCollections with the new values.
loadCollections(p) ==
    /\ collectionDue' = [p EXCEPT !.loading = TRUE]
    /\ collectionCalls' = collectionCalls (+)
          SetToBag({[api |-> "getCollections",
                     params |->
                        [month |-> IF p.selectedMonth = "" THEN None
                                   ELSE Some(p.selectedMonth),
                         branchId |-> p.selectedBranchId]]})
    /\ UNCHANGED collectionTable

SetSelectedMonth(value) ==
    /\ CollectionsShown
    /\ value # collectionDue.selectedMonth
    /\ loadCollections([collectionDue EXCEPT !.selectedMonth = value])

\* setSelectedBranchId(value ? Number(value) : null)
SetCollectionBranchId(value) ==
    LET id == IF value = <<>> THEN None ELSE ToNumber(value)
    IN  /\ CollectionsShown
        /\ id # collectionDue.selectedBranchId
        /\ loadCollections([collectionDue EXCEPT !.selectedBranchId = id])

\* The response to getCollections arrives, or the call fails.
GetCollectionsResult(call, fails) ==
    /\ call \in BagToSet(collectionCalls) /\ call.api = "getCollections"
    /\ collectionCalls' = collectionCalls (-) SetToBag({call})
    /\ UNCHANGED collectionTable
    /\ IF fails
       THEN collectionDue' = [collectionDue EXCEPT
                !.collections = <<>>,
                !.toast = "Failed to load collection data.",
                !.loading = FALSE]
       ELSE collectionDue' = [collectionDue EXCEPT
                !.collections =
                    mappedData(getCollections(call.params, collectionTable)),
                !.loading = FALSE]

\* A click on Pay Due in row i, shown for a row with something due.
handlePayDueClick(i) ==
    /\ CollectionsShown
    /\ i \in 1..Len(collectionDue.collections)
    /\ collectionDue.collections[i].dueAmount > 0
    /\ collectionDue' = [collectionDue EXCEPT
          !.selectedCollection = Some(collectionDue.collections[i]),
          !.paymentAmount = NumericText(collectionDue.collections[i].dueAmount),
          !.paymentMethod = None,
          !.isPayModalOpen = TRUE]
    /\ UNCHANGED <<collectionCalls, collectionTable>>

SetPaymentMethod(method) ==
    /\ PayModalShown
    /\ Some(method) # collectionDue.paymentMethod
    /\ collectionDue' = [collectionDue EXCEPT !.paymentMethod = Some(method)]
    /\ UNCHANGED <<collectionCalls, collectionTable>>

SetPaymentAmount(value) ==
    /\ PayModalShown
    /\ value # collectionDue.paymentAmount
    /\ collectionDue' = [collectionDue EXCEPT !.paymentAmount = value]
    /\ UNCHANGED <<collectionCalls, collectionTable>>

\* The X and Cancel buttons of the modal.
ClosePayModal ==
    /\ PayModalShown
    /\ collectionDue' = [collectionDue EXCEPT !.isPayModalOpen = FALSE]
    /\ UNCHANGED <<collectionCalls, collectionTable>>

\* The guards without the comparison with what is due.
PaymentRefusedAnyAmount(p) ==
    IF p.selectedCollection = None \/ p.paymentMethod = None
       \/ p.paymentAmount = <<>>
    THEN "Please select a payment method and enter an amount."
    ELSE LET payment == ParseFloat(p.paymentAmount)
         IN  IF payment = NaN \/ payment[1] <= 0
             THEN "Invalid amount."
             ELSE ""

\* The toast of the guards of handlePaymentSubmit, "" when they pass.
PaymentRefused(p) ==
    IF p.selectedCollection = None \/ p.paymentMethod = None
       \/ p.paymentAmount = <<>>
    THEN "Please select a payment method and enter an amount."
    ELSE LET payment == ParseFloat(p.paymentAmount)
         IN  IF payment = NaN \/ payment[1] <= 0
                \/ payment[1] > p.selectedCollection[1].dueAmount
             THEN "Invalid amount."
             ELSE ""

\* An optimistic update that books the payment under both methods.
updatedCollectionsBothMethods(collections, historyId, payment, method) ==
    [i \in 1..Len(collections) |->
        IF collections[i].historyId = historyId
        THEN [collections[i] EXCEPT
                !.amountPaid = @ + payment,
                !.dueAmount = @ - payment,
                !.cash = @ + payment,
                !.online = @ + payment]
        ELSE collections[i]]

\* The optimistic update of handlePaymentSubmit.
updatedCollections(collections, historyId, payment, method) ==
    [i \in 1..Len(collections) |->
        IF collections[i].historyId = historyId
        THEN [collections[i] EXCEPT
                !.amountPaid = @ + payment,
                !.dueAmount = @ - payment,
                !.cash = IF method = "cash" THEN @ + payment ELSE @,
                !.online = IF method = "online" THEN @ + payment ELSE @]
        ELSE collections[i]]

\* A click on Submit Payment, up to the await.
handlePaymentSubmit ==
    /\ PayModalShown
    /\ ~collectionDue.isSubmitting
    /\ UNCHANGED collectionTable
    /\ IF PaymentRefused(collectionDue) # ""
       THEN /\ collectionDue' = [collectionDue EXCEPT
                                   !.toast = PaymentRefused(collectionDue)]
            /\ UNCHANGED collectionCalls
       ELSE LET payment == ParseFloat(collectionDue.paymentAmount)[1]
                historyId == collectionDue.selectedCollection[1].historyId
                method == collectionDue.paymentMethod[1]
            IN  /\ collectionDue' = [collectionDue EXCEPT
                      !.isSubmitting = TRUE,
                      !.collections = updatedCollections(
                          collectionDue.collections, historyId, payment,
                          method),
                      !.isPayModalOpen = FALSE]
                /\ collectionCalls' = collectionCalls (+)
                      SetToBag({[api |-> "updateCollectionPayment",
                                 historyId |-> historyId,
                                 amount |-> payment, method |-> method,
                                 originalCollections |->
                                     collectionDue.collections]})

\* A return of updateCollectionPayment whose catch leaves the list as it is.
UpdateCollectionPaymentResultKeeps(call, fails) ==
    /\ call \in BagToSet(collectionCalls)
    /\ call.api = "updateCollectionPayment"
    /\ collectionCalls' = collectionCalls (-) SetToBag({call})
    /\ IF fails \/ call.amount > collectionTable[call.historyId].dueAmount
       THEN /\ collectionDue' = [collectionDue EXCEPT
                  !.toast = "Failed to update payment. Please try again.",
                  !.isSubmitting = FALSE]
            /\ UNCHANGED collectionTable
       ELSE /\ collectionDue' = [collectionDue EXCEPT
                  !.toast = "Payment updated successfully!",
                  !.isSubmitting = FALSE]
            /\ collectionTable' = [collectionTable EXCEPT
                  ![call.historyId] =
                      [amountPaid |-> @.amountPaid + call.amount,
                       dueAmount |-> @.dueAmount - call.amount,
                       cash |-> IF call.method = "cash"
                                THEN @.cash + call.amount ELSE @.cash,
                       online |-> IF call.method = "online"
                                  THEN @.online + call.amount ELSE @.online]]

\* updateCollectionPayment returns: the server has booked the payment, or
\* the call failed (as it does for more than is due on the server).
UpdateCollectionPaymentResult(call, fails) ==
    /\ call \in BagToSet(collectionCalls)
    /\ call.api = "updateCollectionPayment"
    /\ collectionCalls' = collectionCalls (-) SetToBag({call})
    /\ IF fails \/ call.amount > collectionTable[call.historyId].dueAmount
       THEN /\ collectionDue' = [collectionDue EXCEPT
                  !.collections = call.originalCollections,
                  !.toast = "Failed to update payment. Please try again.",
                  !.isSubmitting = FALSE]
            /\ UNCHANGED collectionTable
       ELSE /\ collectionDue' = [collectionDue EXCEPT
                  !.toast = "Payment updated successfully!",
                  !.isSubmitting = FALSE]
            /\ collectionTable' = [collectionTable EXCEPT
                  ![call.historyId] =
                      [amountPaid |-> @.amountPaid + call.amount,
                       dueAmount |-> @.dueAmount - call.amount,
                       cash |-> IF call.method = "cash"
                                THEN @.cash + call.amount ELSE @.cash,
                       online |-> IF call.method = "online"
                                  THEN @.online + call.amount ELSE @.online]]

CollectionsNext ==
    \/ \E value \in MonthChoices :
          SetSelectedMonth(value) /\ UNCHANGED offCollections
    \/ \E value \in BranchChoices :
          SetCollectionBranchId(value) /\ UNCHANGED offCollections
    \/ \E call \in BagToSet(collectionCalls), fails \in BOOLEAN :
          GetCollectionsResult(call, fails) /\ UNCHANGED offCollections
    \/ \E i \in 1..Len(CollectionRows) :
          handlePayDueClick(i) /\ UNCHANGED offCollections
    \/ \E method \in MethodChoices :
          SetPaymentMethod(method) /\ UNCHANGED offCollections
    \/ \E value \in AmountInputs :
          SetPaymentAmount(value) /\ UNCHANGED offCollections
    \/ ClosePayModal /\ UNCHANGED offCollections
    \/ handlePaymentSubmit /\ UNCHANGED offCollections
    \/ \E call \in BagToSet(collectionCalls), fails \in BOOLEAN :
          UpdateCollectionPaymentResult(call, fails)
          /\ UNCHANGED offCollections

----------------------------------------------------------------------------
(* Dashboard (pages/Dashboard.tsx)                                         *)

MaxStatsRuns == 2    \* runs of fetchStats under way at a time
MaxBranchFetches == 1    \* getBranches calls awaited at a time
MaxRefreshes == 1    \* refreshes a run of the page makes

\* What the server has for the dashboard: its branches, and the statistics
\* of a branch (None: all branches).
DashboardBranches == <<1, 2>>

DashboardStats(branchId) ==
    IF branchId = None
    THEN [totalStudents |-> 11, activeStudents |-> 9,
          expiredMemberships |-> 2, totalCollection |-> 180,
          totalDue |-> 150, totalExpense |-> 140, profitLoss |-> 40]
    ELSE IF branchId = Some(1)
    THEN [totalStudents |-> 8, activeStudents |-> 7,
          expiredMemberships |-> 1, totalCollection |-> 100,
          totalDue |-> 150, totalExpense |-> 40, profitLoss |-> 60]
    ELSE [totalStudents |-> 3, activeStudents |-> 2,
          expiredMemberships |-> 1, totalCollection |-> 80,
          totalDue |-> 0, totalExpense |-> 100, profitLoss |-> 0 - 20]

\* The HTTP status a request of the page ends with, and the statuses of the
\* requests a run of fetchStats awaits together.
StatusChoices == {200, 401}
StatsReplies ==
    { <<200, 200, 200>>, <<401, 200, 200>>, <<200, 500, 200>>,
      <<200>>, <<401>> }

\* The options of the branch select.
DashboardBranchOptions ==
    { <<"a", "l", "l">> } \cup
    { NatText(dashboard.branches[i]) : i \in 1..Len(dashboard.branches) }

\* The effect on [updateTrigger, selectedBranchId] for the state p: it calls
\* fetchBranches and fetchStats, which runs up to its first await with the
\* selectedBranchId of p.
fetchStats(p) ==
    /\ Awaited(dashboardCalls, "getBranches") < MaxBranchFetches
    /\ Awaited(dashboardCalls, "fetchStats") < MaxStatsRuns
    /\ dashboard' = p
    /\ dashboardCalls' = dashboardCalls
          (+) SetToBag({[api |-> "getBranches"]})
          (+) SetToBag({[api |-> "fetchStats",
                         branchId |-> p.selectedBranchId,
                         stage |-> "counts", reply |-> None]})

\* The page once mounted: the effect has run.
DashboardInit ==
    /\ dashboard =
          [updateTrigger |-> 0,
           studentStats |-> [totalStudents |-> 0, activeStudents |-> 0,
                             expiredMemberships |-> 0],
           financialStats |-> [totalCollection |-> 0, totalDue |-> 0,
                               totalExpense |-> 0, profitLoss |-> 0],
           showAddForm |-> FALSE, branches |-> <<>>,
           selectedBranchId |-> None, toast |-> "", path |-> "/"]
    /\ dashboardCalls =
          SetToBag({[api |-> "getBranches"]})
          (+) SetToBag({[api |-> "fetchStats", branchId |-> None,
                         stage |-> "counts", reply |-> None]})

\* setSelectedBranchId(value === 'all' ? null : parseInt(value, 10))
SetDashboardBranchId(value) ==
    LET id == IF value = <<"a", "l", "l">> THEN None ELSE ParseInt(value)
    IN  /\ value \in DashboardBranchOptions
        /\ id # dashboard.selectedBranchId
        /\ fetchStats([dashboard EXCEPT !.selectedBranchId = id])

\* The Add Student button.
ShowAddForm ==
    /\ ~dashboard.showAddForm
    /\ dashboard' = [dashboard EXCEPT !.showAddForm = TRUE]
    /\ UNCHANGED dashboardCalls

\* The Cancel button: setShowAddForm(false); handleRefresh().
handleRefresh ==
    /\ dashboard.showAddForm
    /\ dashboard.updateTrigger < MaxRefreshes
    /\ fetchStats([dashboard EXCEPT !.updateTrigger = @ + 1,
                                    !.showAddForm = FALSE])

\* fetchBranches after its await.
GetBranchesResult(call, status) ==
    /\ call \in BagToSet(dashboardCalls) /\ call.api = "getBranches"
    /\ dashboardCalls' = dashboardCalls (-) SetToBag({call})
    /\ IF status = 200
       THEN dashboard' = [dashboard EXCEPT !.branches = DashboardBranches]
       ELSE dashboard' = [dashboard EXCEPT
                !.toast = "Failed to load branches", !.branches = <<>>]

\* The server has answered the requests a run of fetchStats awaits: three
\* counts, or the financial statistics.
StatsReply(run, statuses) ==
    /\ run \in BagToSet(dashboardCalls) /\ run.api = "fetchStats"
    /\ run.reply = None
    /\ Len(statuses) = IF run.stage = "counts" THEN 3 ELSE 1
    /\ dashboardCalls' = dashboardCalls (-) SetToBag({run})
          (+) SetToBag({[run EXCEPT !.reply = Some(statuses)]})
    /\ UNCHANGED dashboard

\* What a request of fetchStats resolves to: its own catch turns a failure,
\* whatever its status, into the fallback.
Resolved(status, value, fallback) == IF status = 200 THEN value ELSE fallback

\* fetchStats after Promise.all: setStudentStats, then the financial
\* request.
CountsSettled(run) ==
    /\ run \in BagToSet(dashboardCalls) /\ run.api = "fetchStats"
    /\ run.stage = "counts" /\ run.reply # None
    /\ LET stats == DashboardStats(run.branchId)
           statuses == run.reply[1]
       IN  dashboard' = [dashboard EXCEPT !.studentStats =
              [totalStudents |->
                  Resolved(statuses[1], stats.totalStudents, 0),
               activeStudents |->
                  Resolved(statuses[2], stats.activeStudents, 0),
               expiredMemberships |->
                  Resolved(statuses[3], stats.expiredMemberships, 0)]]
    /\ dashboardCalls' = dashboardCalls (-) SetToBag({run})
          (+) SetToBag({[run EXCEPT !.stage = "financial",
                                    !.reply = None]})

\* fetchStats after the financial request: setFinancialStats. No rejection
\* reaches the catch of fetchStats.
FinancialSettled(run) ==
    /\ run \in BagToSet(dashboardCalls) /\ run.api = "fetchStats"
    /\ run.stage = "financial" /\ run.reply # None
    /\ LET stats == DashboardStats(run.branchId)
           financialResponse ==
              Resolved(run.reply[1][1],
                       [totalCollection |-> stats.totalCollection,
                        totalDue |-> stats.totalDue,
                        totalExpense |-> stats.totalExpense,
                        profitLoss |-> stats.profitLoss],
                       [totalCollection |-> 0, totalDue |-> 0,
                        totalExpense |-> 0, profitLoss |-> 0])
       IN  dashboard' = [dashboard EXCEPT
                            !.financialStats = financialResponse]
    /\ dashboardCalls' = dashboardCalls (-) SetToBag({run})

\* A card that shows profitLoss with its sign.
ProfitLossCardSigned(financialStats) ==
    [title |-> IF financialStats.profitLoss >= 0 THEN "Profit" ELSE "Loss",
     value |-> financialStats.profitLoss]

\* The title and the value of the last financial card.
ProfitLossCard(financialStats) ==
    [title |-> IF financialStats.profitLoss >= 0 THEN "Profit" ELSE "Loss",
     value |-> IF financialStats.profitLoss < 0
               THEN 0 - financialStats.profitLoss
               ELSE financialStats.profitLoss]

DashboardNext ==
    \/ \E value \in { <<"a", "l", "l">>, <<"1">>, <<"2">> } :
          SetDashboardBranchId(value) /\ UNCHANGED offDashboard
    \/ ShowAddForm /\ UNCHANGED offDashboard
    \/ handleRefresh /\ UNCHANGED offDashboard
    \/ \E call \in BagToSet(dashboardCalls), status \in StatusChoices :
          GetBranchesResult(call, status) /\ UNCHANGED offDashboard
    \/ \E run \in BagToSet(dashboardCalls),
          statuses \in StatsReplies :
          StatsReply(run, statuses) /\ UNCHANGED offDashboard
    \/ \E run \in BagToSet(dashboardCalls) :
          CountsSettled(run) /\ UNCHANGED offDashboard
    \/ \E run \in BagToSet(dashboardCalls) :
          FinancialSettled(run) /\ UNCHANGED offDashboard

----------------------------------------------------------------------------
(* Sidebar (components/Sidebar.tsx)                                        *)

\* The menu button, rendered on a narrow screen.
OpenSidebar ==
    /\ sidebar.pathname # "/login"
    /\ ~sidebar.isSidebarOpen
    /\ sidebar' = [sidebar EXCEPT !.isSidebarOpen = TRUE]

\* A click on Logout, isMobile being what the media query says then; on a
\* narrow screen the button is there once the sidebar is open. The handler
\* sends no request.
handleLogout(isMobile) ==
    /\ sidebar.pathname # "/login"
    /\ isMobile => sidebar.isSidebarOpen
    /\ sidebar' = [pathname |-> "/login",
                   isSidebarOpen |-> IF isMobile THEN FALSE
                                     ELSE sidebar.isSidebarOpen]

----------------------------------------------------------------------------
(* Specifications                                                          *)

\* The server started and every page mounted.
Boot == Init /\ sample = None /\ AllStudentsInit /\ CollectionDueInit
        /\ DashboardInit
        /\ sidebar = [pathname |-> "/", isSidebarOpen |-> FALSE]

\* The server on its own, the pages left as they were mounted.
Spec == Boot /\ [][Next]_allVars

\* The pages are served at UTC.
BootAtUTC == Boot /\ tz = 0

\* The All Students page on its own.
StudentsSpec == BootAtUTC /\ [][StudentsNext]_allVars

\* The server and the Sidebar of the browser whose session it holds.
SessionSpec ==
    Boot /\ [][ \/ Next
                \/ OpenSidebar /\ UNCHANGED offSidebar
                \/ \E isMobile \in BOOLEAN :
                      handleLogout(isMobile) /\ UNCHANGED offSidebar
             ]_allVars

\* The All Students page as it is browsed.
BrowsingSpec == BootAtUTC /\ [][BrowsingNext]_allVars

\* The Collection & Due page on its own.
CollectionsSpec == BootAtUTC /\ [][CollectionsNext]_allVars

\* The Dashboard on its own.
DashboardSpec == BootAtUTC /\ [][DashboardNext]_allVars

----------------------------------------------------------------------------
(* Properties                                                              *)

ReportRoutes == {"profit-loss", "monthly-collections"}
AuthRoutes == {"login", "logout", "status"}

\* The session user may use the report routes.
AdminOrStaff(user) == user # None /\ user[1].role \in {"admin", "staff"}

\* A response a report route sent in the step in which the request came in.
AnsweredOnArrival(o) ==
    o.req.route \in ReportRoutes /\ o.status # 0 /\ o.queries = <<>>

\* Request r started awaiting its first query in this step.
Started(r) ==
    /\ r.req.route \in ReportRoutes
    /\ r.pc \in {"collections", "records"}
    /\ CopiesIn(r, inflight') > CopiesIn(r, inflight)

\* A month of the calendar in the form YYYY-MM.
CalendarMonth(month) ==
    /\ month # None
    /\ Len(month[1]) = 7
    /\ IsDigits(SubSeq(month[1], 1, 4))
    /\ month[1][5] = "-"
    /\ IsDigits(SubSeq(month[1], 6, 7))
    /\ DigitsValue(SubSeq(month[1], 6, 7)) \in 1..12

FirstDayOf(month) == month \o <<"-", "0", "1">>

LastDayOf(month) ==
    month \o <<"-">> \o
    PadStart(NatText(DaysInMonth(DigitsValue(SubSeq(month, 1, 4)),
                                 DigitsValue(SubSeq(month, 6, 7)))), 2)

\* Every query a report request has issued so far, with its request.
QueriesOf(x) ==
    IF x.req.route \in ReportRoutes
    THEN { <<x.req, x.queries[i]>> : i \in 1..Len(x.queries) }
    ELSE {}

Issued == QueriesOf(out) \cup UNION { QueriesOf(r) : r \in BagToSet(inflight) }

\* The rows dated within the range the queries of response o were given.
InRange(rows, o) ==
    { r \in rows :
        /\ DateLE(PgDate(o.queries[1].params[1])[1], r.date)
        /\ DateLE(r.date, PgDate(o.queries[1].params[2])[1]) }

\* The rows a profit-loss response is to sum: those in its range, of the
\* one branch asked for if one was.
Counted(rows, o) ==
    IF Falsy(o.req.branchId) THEN InRange(rows, o)
    ELSE { r \in InRange(rows, o) :
             Some(r.branch_id) = ParseInt(o.req.branchId[1]) }

\* C1: on both report routes a request without a session user is answered
\* 401 and one whose user is neither admin nor staff 403, in both cases
\* with no query issued; only for an admin or staff user does the handler
\* run (answer otherwise, or start a query).
C1_ReportsGuarded ==
    [][ /\ AnsweredOnArrival(out') =>
             /\ sessionUser = None <=> out'.status = 401
             /\ (sessionUser # None /\ ~AdminOrStaff(sessionUser))
                    <=> out'.status = 403
             /\ out'.status \in {401, 403} => inflight' = inflight
        /\ \A r \in BagToSet(inflight') :
             Started(r) => AdminOrStaff(sessionUser)
        /\ (out'.req.route \in ReportRoutes /\ out'.status \in {401, 403})
             => out'.queries = <<>>
      ]_vars

C1_Witness ==
    /\ out.req.route = "monthly-collections"
    /\ out.status = 403
    /\ sessionUser # None /\ sessionUser[1].role = "student"

\* C2: a report request of an admin or staff user whose month is missing
\* or is no calendar month YYYY-MM is answered 400 'Invalid month format,
\* use YYYY-MM' and issues no query.
C2_InvalidMonthRejected ==
    /\ (/\ out.req.route \in ReportRoutes
        /\ out.status \notin {0, 401, 403}
        /\ ~CalendarMonth(out.req.month))
         => /\ out.status = 400
            /\ out.body = [message |-> "Invalid month format, use YYYY-MM"]
            /\ out.queries = <<>>
    /\ \A r \in BagToSet(inflight) :
         r.req.route \in ReportRoutes => CalendarMonth(r.req.month)

\* C3: for a calendar month, whatever the server's time zone, the range
\* the report queries are given runs from the first to the last day of that
\* month.
C3_RangeIsTheMonth ==
    \A p \in Issued :
        CalendarMonth(p[1].month) =>
            /\ p[2].params[1] = FirstDayOf(p[1].month[1])
            /\ p[2].params[2] = LastDayOf(p[1].month[1])

\* C4: a 200 response of profit-loss echoes the month, its totalCollected
\* and totalExpenses are the sums over the membership-history and expense
\* rows in the date range of its queries, of the requested branch only when
\* a branchId was given (0 when there is no such row), and profitLoss is
\* their difference.
C4_ProfitLossSummary ==
    (out.req.route = "profit-loss" /\ out.status = 200) =>
        /\ out.body.month = out.req.month[1]
        /\ out.body.totalCollected = SumAmount(Counted(db.history, out))
        /\ out.body.totalExpenses = SumAmount(Counted(db.expenses, out))
        /\ Counted(db.history, out) = {} => out.body.totalCollected = 0
        /\ Counted(db.expenses, out) = {} => out.body.totalExpenses = 0
        /\ out.body.profitLoss =
               out.body.totalCollected - out.body.totalExpenses

\* C4 as first stated: the two sums run over every row in the date range.
C4_SumsOverTheRange ==
    (out.req.route = "profit-loss" /\ out.status = 200) =>
        /\ out.body.month = out.req.month[1]
        /\ out.body.totalCollected = SumAmount(InRange(db.history, out))
        /\ out.body.totalExpenses = SumAmount(InRange(db.expenses, out))
        /\ out.body.profitLoss =
               out.body.totalCollected - out.body.totalExpenses

C4_Witness ==
    /\ out.req.route = "profit-loss"
    /\ out.status = 200
    /\ out.body.totalCollected = 200
    /\ out.body.profitLoss = -500

\* The profit-loss requests past the guard and the month test.
PastMonthTest(x) ==
    /\ x.req.route = "profit-loss"
    /\ ~MonthRejected(x.req.month)

\* C5: in profit-loss a branchId that parses as an integer restricts both
\* sums to the rows of that branch, an absent or empty one leaves both
\* sums over all branches, and one that is not a number is answered 400
\* 'Invalid branch ID' with no query issued.
C5_BranchFilter ==
    /\ \A p \in Issued :
         p[1].route = "profit-loss" =>
            IF Falsy(p[1].branchId)
            THEN ~p[2].byBranch /\ Len(p[2].params) = 2
            ELSE /\ p[2].byBranch
                 /\ Len(p[2].params) = 3
                 /\ Some(p[2].params[3]) = ParseInt(p[1].branchId[1])
    /\ \A r \in BagToSet(inflight) :
         (r.req.route = "profit-loss" /\ ~Falsy(r.req.branchId))
            => ParseInt(r.req.branchId[1]) # NaN
    /\ (PastMonthTest(out) /\ out.status = 200) =>
         /\ Len(out.queries) = 2
         /\ IF Falsy(out.req.branchId)
            THEN /\ out.body.totalCollected =
                        SumAmount(InRange(db.history, out))
                 /\ out.body.totalExpenses =
                        SumAmount(InRange(db.expenses, out))
            ELSE LET n == ParseInt(out.req.branchId[1])[1]
                 IN  /\ out.body.totalCollected =
                            SumAmount({ r \in InRange(db.history, out) :
                                          r.branch_id = n })
                     /\ out.body.totalExpenses =
                            SumAmount({ r \in InRange(db.expenses, out) :
                                          r.branch_id = n })
    /\ (/\ PastMonthTest(out)
        /\ out.status \notin {0, 401, 403}
        /\ ~Falsy(out.req.branchId)
        /\ ParseInt(out.req.branchId[1]) = NaN)
         => /\ out.status = 400
            /\ out.body = [message |-> "Invalid branch ID"]
            /\ out.queries = <<>>

C5_Witness ==
    /\ out.req.route = "profit-loss"
    /\ out.status = 200
    /\ out.req.branchId = Some(<<"2">>)
    /\ out.body.totalCollected = 300
    /\ out.body.totalExpenses = 100

\* C6: a 200 response of a report route to a request that carries a
\* branchId holds only what belongs to that branch: the profit-loss sums
\* count rows of that branch only and every monthly-collections record is
\* of a student of that branch.
C6_OnlyTheBranch ==
    (/\ out.req.route \in ReportRoutes
     /\ out.status = 200
     /\ ~Falsy(out.req.branchId)
     /\ ParseInt(out.req.branchId[1]) # NaN) =>
        LET n == ParseInt(out.req.branchId[1])[1]
        IN  IF out.req.route = "profit-loss"
            THEN /\ out.body.totalCollected =
                        SumAmount({ r \in InRange(db.history, out) :
                                      r.branch_id = n })
                 /\ out.body.totalExpenses =
                        SumAmount({ r \in InRange(db.expenses, out) :
                                      r.branch_id = n })
            ELSE \A i \in 1..Len(out.body.records) :
                    \E st \in db.students :
                        /\ st.id = out.body.records[i].studentId
                        /\ st.branch_id = n

\* The step answers in-flight request r and takes it out of flight.
Answers(r) ==
    /\ out'.req = r.req
    /\ out'.status # 0
    /\ inflight' = inflight (-) SetToBag({r})

\* The step moves in-flight request r on to its next await, unanswered.
MovesOn(r) ==
    /\ out' = NoResponse
    /\ \E n \in BagToSet(inflight') :
          /\ n.req = r.req
          /\ n.pc # r.pc
          /\ inflight' = (inflight (-) SetToBag({r})) (+) SetToBag({n})

\* The step is the failure of the query request r awaits.
QueryFails(r) ==
    \/ ProfitLossCollections(r, TRUE)
    \/ ProfitLossExpenses(r, TRUE)
    \/ MonthlyCollectionsRecords(r, TRUE)
    \/ LoginResult(r, TRUE)

\* C7: a request to an auth or report route is answered once: on arrival,
\* or when it leaves flight, and never leaves flight unanswered; the status
\* is 200, 400, 401, 403 or 500, a body that is not a 200's has a message,
\* and a failed query is answered 500.
C7_OneResponse ==
    [][ /\ out'.req.route \in (AuthRoutes \cup ReportRoutes) =>
             /\ out'.status \in {200, 400, 401, 403, 500}
             /\ out'.status # 200 => "message" \in DOMAIN out'.body
             /\ \/ inflight' = inflight
                \/ \E r \in BagToSet(inflight) : Answers(r)
        /\ \A r \in BagToSet(inflight) :
             CopiesIn(r, inflight') < CopiesIn(r, inflight)
                => Answers(r) \/ MovesOn(r)
        /\ \A r \in BagToSet(inflight) :
             QueryFails(r) => Answers(r) /\ out'.status = 500
      ]_vars

C7_Witness ==
    /\ out.req.route = "monthly-collections"
    /\ out.status = 500
    /\ CalendarMonth(out.req.month)
    /\ inflight = EmptyBag

\* The users whose name and password a login request gives.
Matches(req) ==
    { u \in db.users :
        /\ ~FalsyField(req.username) /\ ~FalsyField(req.password)
        /\ u.username = req.username[1]
        /\ u.password = req.password[1] }

\* C8: a login response is 200 and sets session.user to the user's id,
\* username and role exactly when the username exists with that password
\* (and the query did not fail); with 400 (a field missing), 401 (unknown
\* user or wrong password) and 500 session.user stays as it was.
C8_LoginSetsSession ==
    [][ (out'.req.route = "login" /\ out'.status # 0) =>
          /\ out'.status \in {200, 400, 401, 500}
          /\ out'.status = 200 =>
               \E u \in Matches(out'.req) :
                  sessionUser' = Some([id |-> u.id, username |-> u.username,
                                       role |-> u.role])
          /\ out'.status # 200 => sessionUser' = sessionUser
          /\ out'.status = 400 <=>
               (FalsyField(out'.req.username) \/ FalsyField(out'.req.password))
          /\ out'.status = 401 => Matches(out'.req) = {}
          /\ Matches(out'.req) # {} => out'.status \in {200, 500}
      ]_vars

C8_Witness ==
    /\ out.req.route = "login"
    /\ out.status = 401
    /\ out.req.username = Some("asha")
    /\ sessionUser # None /\ sessionUser[1].username = "bilal"

\* C9: GET /status answers isAuthenticated true with the id, username and
\* role the last successful login returned, as long as no logout has
\* succeeded since; with no such login it answers isAuthenticated false and
\* user null.
C9_StatusReflectsLogin ==
    out.req.route = "status" =>
        /\ out.status = 200
        /\ IF lastAuth.event = "login"
           THEN out.body = [isAuthenticated |-> TRUE, user |-> lastAuth.user]
           ELSE out.body = [isAuthenticated |-> FALSE, user |-> None]

C9_Witness ==
    /\ out.req.route = "status"
    /\ lastAuth.event = "login"
    /\ out.body.isAuthenticated
    /\ out.body.user = Some([id |-> 2, username |-> "bilal", role |-> "staff"])

\* C10: once a logout has answered 'Logout successful' and until a login
\* succeeds, the session has no user, every request coming in at a guard
\* is answered 401 and GET /status answers isAuthenticated false; a logout
\* whose destroy reports no error answers 'Logout successful' whether or
\* not a user was logged in; and only a successful login gives the session
\* a user again.
C10_LoggedOut ==
    [][ /\ lastAuth'.event = "logout" =>
             /\ sessionUser' = None
             /\ out'.req.route = "guarded" => out'.status = 401 /\ ~out'.next
             /\ AnsweredOnArrival(out') => out'.status = 401
             /\ out'.req.route = "status" => ~out'.body.isAuthenticated
        /\ \A r \in BagToSet(inflight) :
             LogoutCallback(r, FALSE) =>
                /\ out'.status = 200
                /\ out'.body = [message |-> "Logout successful"]
                /\ sessionUser' = None
                /\ lastAuth'.event = "logout"
        /\ (sessionUser = None /\ sessionUser' # None) =>
             /\ out'.req.route = "login" /\ out'.status = 200
             /\ lastAuth'.event = "login"
      ]_vars

C10_Witness ==
    /\ lastAuth.event = "logout"
    /\ out.req = [route |-> "guarded", guard |-> "checkPermission"]
    /\ out.status = 401


\* The accounts that hold the permission a checkPermission route requires.
PermissionHolders == {"bilal"}

\* C11: checkPermission calls next exactly when the session user is an admin
\* or holds the required permission, answers 401 without a session user and
\* 403 to a non-admin who lacks the permission; a non-admin who logged in
\* through POST /login and holds the permission is let through.
C11_PermissionLetsHoldersThrough ==
    (out.req = [route |-> "guarded", guard |-> "checkPermission"]) =>
        LET allowed ==
                /\ sessionUser # None
                /\ \/ sessionUser[1].role = "admin"
                   \/ sessionUser[1].username \in PermissionHolders
        IN  /\ out.next <=> allowed
            /\ sessionUser = None => out.status = 401
            /\ (sessionUser # None /\ ~allowed) => out.status = 403

\* Query parameters and accounts of the runs that keep a sample: a month the
\* pattern rejects, January and month 13; no branch and branch 1; every
\* account.
SampleMonths ==
    { Some(<<"2", "0", "2", "4", "-", "1">>),
      Some(<<"2", "0", "2", "4", "-", "0", "1">>),
      Some(<<"2", "0", "2", "4", "-", "1", "3">>) }
SampleBranches == { None, Some(<<"1">>) }
SampleLogins ==
    { [username |-> Some("asha"), password |-> Some("pw1")],
      [username |-> Some("bilal"), password |-> Some("pw2")],
      [username |-> Some("chen"), password |-> Some("pw1")] }

\* History: a step that answers a report request may keep that response,
\* with the session user of that moment, as the sample.
Observe ==
    \/ sample' = sample
    \/ /\ sample = None
       /\ out'.req.route \in ReportRoutes
       /\ sample' = Some([response |-> out', user |-> sessionUser])

\* The routes of both files under the sample's inputs.
ReportsNext ==
    \/ \E month \in SampleMonths, branchId \in SampleBranches :
          ProfitLossRequest(month, branchId) /\ Observe
          /\ UNCHANGED pages
    \/ \E r \in BagToSet(inflight), fails \in BOOLEAN :
          ProfitLossCollections(r, fails) /\ Observe
          /\ UNCHANGED pages
    \/ \E r \in BagToSet(inflight), fails \in BOOLEAN :
          ProfitLossExpenses(r, fails) /\ Observe
          /\ UNCHANGED pages
    \/ \E month \in SampleMonths, branchId \in SampleBranches :
          MonthlyCollectionsRequest(month, branchId) /\ Observe
          /\ UNCHANGED pages
    \/ \E r \in BagToSet(inflight), fails \in BOOLEAN :
          MonthlyCollectionsRecords(r, fails) /\ Observe
          /\ UNCHANGED pages
    \/ \E login \in SampleLogins :
          LoginRequest(login.username, login.password) /\ UNCHANGED elsewhere
    \/ \E r \in BagToSet(inflight), fails \in BOOLEAN :
          LoginResult(r, fails) /\ UNCHANGED elsewhere
    \/ LogoutRequest /\ UNCHANGED elsewhere
    \/ \E r \in BagToSet(inflight), err \in BOOLEAN :
          LogoutCallback(r, err) /\ UNCHANGED elsewhere
    \/ StatusRequest /\ UNCHANGED elsewhere

\* The runs that keep a sample, on a server at UTC+05:30.
BootAtIST == Boot /\ tz = 330

ReportsSpec == BootAtIST /\ [][ReportsNext]_allVars

\* The 500 of a query that the database could have run: the failure lies
\* with the database of that moment, not with the request.
Transient(o) ==
    /\ o.status = 500
    /\ \A i \in 1..Len(o.queries) : Executable(o.queries[i])

\* Response o and the sample answer the same question: the same route and
\* query parameters, both past the guard or both stopped on arrival for the
\* same session user, and neither cut short by a failing database.
SameQuestion(o) ==
    /\ sample # None
    /\ o.req = sample[1].response.req
    /\ ~Transient(o) /\ ~Transient(sample[1].response)
    /\ AnsweredOnArrival(o) <=> AnsweredOnArrival(sample[1].response)
    /\ AnsweredOnArrival(o) => sessionUser = sample[1].user

\* The step belongs to a report handler.
ReportStep ==
    \/ out'.req.route \in ReportRoutes
    \/ \E r \in BagToSet(inflight) \cup BagToSet(inflight') :
          /\ r.req.route \in ReportRoutes
          /\ CopiesIn(r, inflight') # CopiesIn(r, inflight)

\* C12: the report handlers are stateless and read-only: no step of theirs
\* changes the session user or the database, and a report request gets the
\* status and body an earlier request with the same query parameters, the
\* same session user and the same database got, whatever was served in
\* between.
C12_ReportsReadOnly ==
    [][ /\ ReportStep => (sessionUser' = sessionUser /\ db' = db)
        /\ (out'.req.route \in ReportRoutes /\ SameQuestion(out)') =>
              /\ out'.status = sample'[1].response.status
              /\ out'.body = sample'[1].response.body ]_allVars

\* A profit-loss request is answered 200 for one user after the same request
\* was answered, and kept as the sample, for another.
C12_Witness ==
    /\ SameQuestion(out)
    /\ out.status = 200
    /\ out.req.route = "profit-loss"
    /\ sessionUser # sample[1].user

\* C13: on the All Students page, whatever was typed, chosen, clicked,
\* fetched or deleted, 1 <= currentPage <= max(1, totalPages), where
\* totalPages is the number of filtered students over the page size rounded
\* up; so the page shown has a row whenever the filtered list has one.
C13_PageWithinRange ==
    /\ 1 <= allStudents.currentPage
    /\ allStudents.currentPage <= Max(1, totalPages(allStudents))
    /\ (~allStudents.loading /\ Len(filteredStudents(allStudents)) > 0) =>
          Len(currentStudents(allStudents)) > 0

\* The step is the return of the awaited deleteStudent call c.
DeleteReturns(c) ==
    /\ c.api = "deleteStudent"
    /\ CopiesIn(c, studentCalls') < CopiesIn(c, studentCalls)

\* C19: a confirmed delete whose call succeeds takes exactly the student of
\* that id off the list and leaves every other student as it was; a failed
\* call, like a click on the bin before its call returns, leaves the list
\* as it was.
C19_DeleteRemovesOne ==
    [][ /\ \A c \in BagToSet(studentCalls) :
              DeleteReturns(c) =>
                 allStudents'.students =
                    IF studentTable' # studentTable
                    THEN SelectSeq(allStudents.students,
                                   LAMBDA student : student # c.id)
                    ELSE allStudents.students
        /\ Awaited(studentCalls', "deleteStudent") >
              Awaited(studentCalls, "deleteStudent") =>
                 allStudents'.students = allStudents.students ]_allVars

\* C20: with deletes and fetches interleaved in any way, once no call is
\* awaited the list holds no student whose delete succeeded (the server of
\* this model never lists such a student again); so after two overlapping
\* deletes that both succeed neither student is in the list.
C20_DeletedStayGone ==
    studentCalls = EmptyBag =>
        \A i \in 1..Len(allStudents.students) :
            allStudents.students[i] \in studentTable

\* The payments of the Collection & Due page awaiting their response.
PaymentsAwaited(calls) ==
    { c \in BagToSet(calls) : c.api = "updateCollectionPayment" }

\* The amounts a row of the list shows.
Amounts(row) == <<row.amountPaid, row.dueAmount, row.cash, row.online>>

\* C14: a payment is sent only with a collection selected, a method chosen
\* and an amount p with 0 < p <= the selected collection's dueAmount; a
\* click on Submit Payment that sends nothing leaves the list as it is; and
\* no row of the list ever has a negative dueAmount.
C14_PaymentWithinDue ==
    [][ /\ \A c \in PaymentsAwaited(collectionCalls') \
                      PaymentsAwaited(collectionCalls) :
              /\ collectionDue.selectedCollection # None
              /\ collectionDue.paymentMethod = Some(c.method)
              /\ ParseFloat(collectionDue.paymentAmount) = Some(c.amount)
              /\ 0 < c.amount
              /\ c.amount <= collectionDue.selectedCollection[1].dueAmount
        /\ ( /\ PayModalShown /\ ~collectionDue.isSubmitting
             /\ PaymentsAwaited(collectionCalls') = {} )
           => collectionDue'.collections = collectionDue.collections
        /\ \A i \in 1..Len(collectionDue'.collections) :
              collectionDue'.collections[i].dueAmount >= 0
      ]_allVars

\* A payment is awaited after an earlier amount was refused.
C14_Witness ==
    /\ PaymentsAwaited(collectionCalls) # {}
    /\ collectionDue.toast = "Invalid amount."
    /\ \E i \in 1..Len(collectionDue.collections) :
          /\ collectionDue.collections[i].dueAmount = 40
          /\ collectionDue.collections[i].amountPaid = 60

\* C15: when updateCollectionPayment has failed and the failure is handled,
\* the row that was updated shows the amountPaid, dueAmount, cash and online
\* it had right before the submission, and isSubmitting is false.
C15_FailureReverts ==
    [][ \A c \in PaymentsAwaited(collectionCalls) \
                    PaymentsAwaited(collectionCalls') :
           collectionTable' = collectionTable =>
              /\ ~collectionDue'.isSubmitting
              /\ \A j \in 1..Len(c.originalCollections) :
                    c.originalCollections[j].historyId = c.historyId =>
                       \E i \in 1..Len(collectionDue'.collections) :
                          /\ collectionDue'.collections[i].historyId =
                                c.historyId
                          /\ Amounts(collectionDue'.collections[i]) =
                                Amounts(c.originalCollections[j])
      ]_allVars

\* A failed payment has been handled: the row is back at what was due and
\* the server has booked nothing.
C15_Witness ==
    /\ collectionDue.toast = "Failed to update payment. Please try again."
    /\ ~collectionDue.isSubmitting
    /\ collectionTable = CollectionTableAtStart
    /\ \E i \in 1..Len(collectionDue.collections) :
          /\ collectionDue.collections[i].historyId = 1
          /\ collectionDue.collections[i].dueAmount = 100

\* The historyIds of a list of rows.
HistoryIds(rows) == { rows[i].historyId : i \in 1..Len(rows) }

\* C16: once no request is in flight, the list shown is that of the
\* selected month and branch (or empty, after a load that failed).
C16_ListOfSelection ==
    collectionCalls = EmptyBag =>
        \/ collectionDue.collections = <<>>
        \/ HistoryIds(collectionDue.collections) =
              HistoryIds(getCollections(
                  [month |-> IF collectionDue.selectedMonth = "" THEN None
                             ELSE Some(collectionDue.selectedMonth),
                   branchId |-> collectionDue.selectedBranchId],
                  collectionTable))

\* The runs of fetchStats that take a step and hold a reply with a 401.
Handled401 ==
    { run \in BagToSet(dashboardCalls) :
         /\ run.api = "fetchStats" /\ run.reply # None
         /\ \E i \in 1..Len(run.reply[1]) : run.reply[1][i] = 401
         /\ CopiesIn(run, dashboardCalls') < CopiesIn(run, dashboardCalls) }

\* C17: when a statistics request has failed with 401 and fetchStats has
\* handled it, the page shows 'Session expired. Please log in again.' and
\* is at /login.
C17_SessionExpiredOn401 ==
    [][ Handled401 # {} =>
           /\ dashboard'.toast = "Session expired. Please log in again."
           /\ dashboard'.path = "/login" ]_allVars

\* C18: once no request is under way, the student statistics and the
\* financial statistics shown are those of the selected branch (or the
\* zeros shown for a request that failed).
C18_StatsOfSelectedBranch ==
    dashboardCalls = EmptyBag =>
        LET stats == DashboardStats(dashboard.selectedBranchId)
        IN  /\ dashboard.studentStats.totalStudents
                  \in {stats.totalStudents, 0}
            /\ dashboard.studentStats.activeStudents
                  \in {stats.activeStudents, 0}
            /\ dashboard.studentStats.expiredMemberships
                  \in {stats.expiredMemberships, 0}
            /\ dashboard.financialStats.totalCollection
                  \in {stats.totalCollection, 0}
            /\ dashboard.financialStats.totalDue \in {stats.totalDue, 0}
            /\ dashboard.financialStats.totalExpense
                  \in {stats.totalExpense, 0}
            /\ dashboard.financialStats.profitLoss \in {stats.profitLoss, 0}

\* C21: a payment of p by method m on the row with historyId h changes the
\* list at submission so: on row h amountPaid rises by p, dueAmount falls by
\* p, the field of m rises by p and the other method's field stays, so
\* amountPaid + dueAmount is kept; every other row and every other field of
\* row h stays.
C21_OptimisticUpdate ==
    [][ \A c \in PaymentsAwaited(collectionCalls') \
                    PaymentsAwaited(collectionCalls) :
           LET before == collectionDue.collections
               after == collectionDue'.collections
           IN  /\ Len(after) = Len(before)
               /\ \A i \in 1..Len(before) :
                     IF before[i].historyId = c.historyId
                     THEN /\ after[i].amountPaid =
                                before[i].amountPaid + c.amount
                          /\ after[i].dueAmount =
                                before[i].dueAmount - c.amount
                          /\ after[i].cash = before[i].cash +
                                (IF c.method = "cash" THEN c.amount ELSE 0)
                          /\ after[i].online = before[i].online +
                                (IF c.method = "online" THEN c.amount ELSE 0)
                          /\ after[i].amountPaid + after[i].dueAmount =
                                before[i].amountPaid + before[i].dueAmount
                          /\ after[i].historyId = before[i].historyId
                          /\ after[i].studentId = before[i].studentId
                          /\ after[i].totalFee = before[i].totalFee
                     ELSE after[i] = before[i]
      ]_allVars

\* A payment of 60 online on row 1 is awaited and the list shows it booked.
C21_Witness ==
    /\ \E c \in PaymentsAwaited(collectionCalls) :
          c.historyId = 1 /\ c.amount = 60 /\ c.method = "online"
    /\ \E i \in 1..Len(collectionDue.collections) :
          /\ collectionDue.collections[i].historyId = 1
          /\ collectionDue.collections[i].online = 60
          /\ collectionDue.collections[i].cash = 0
          /\ collectionDue.collections[i].dueAmount = 40

\* The fields of the All Students page whose change resets the page.
PageResetters(p) ==
    <<p.searchTerm, p.selectedBranchId, p.fromDate, p.toDate,
      p.studentsPerPage>>

\* The sort setting of the All Students page.
SortSetting(p) ==
    <<p.sortColumn, p.createdAtSortDirection, p.seatSortDirection>>

PageOf(p, k) == currentStudents([p EXCEPT !.currentPage = k])

\* The pages 1..k one after the other.
RECURSIVE PagesUpTo(_, _)
PagesUpTo(p, k) ==
    IF k = 0 THEN <<>> ELSE PagesUpTo(p, k - 1) \o PageOf(p, k)

\* The keys the two sort columns order by.
AddedOn(id) ==
    IF Students[id].createdAt = None THEN Now.date
    ELSE Students[id].createdAt[1]
Seat(id) ==
    IF Students[id].seatNumber = None THEN -1
    ELSE DigitsValue(Students[id].seatNumber[1])

\* A list of students is in the order of a sort setting.
InOrderOf(p, list) ==
    \A i, j \in 1..Len(list) :
        i < j =>
           IF p.sortColumn = Some("createdAt")
           THEN IF p.createdAtSortDirection = "asc"
                THEN DateLE(AddedOn(list[i]), AddedOn(list[j]))
                ELSE DateLE(AddedOn(list[j]), AddedOn(list[i]))
           ELSE IF p.sortColumn = Some("seatNumber")
           THEN IF p.seatSortDirection = "asc"
                THEN Seat(list[i]) <= Seat(list[j])
                ELSE Seat(list[j]) <= Seat(list[i])
           ELSE TRUE

\* C22: the pages 1..totalPages partition the filtered and sorted list:
\* every filtered student is on exactly one page, every page but the last
\* holds studentsPerPage students, and the pages one after the other are
\* the filtered list, which is in the order of the sort setting.
C22_PagesPartition ==
    LET p == allStudents
        filtered == filteredStudents(p)
        last == totalPages(p)
    IN  /\ PagesUpTo(p, last) = filtered
        /\ \A k \in 1..(last - 1) : Len(PageOf(p, k)) = p.studentsPerPage
        /\ \A n \in 1..Len(filtered) :
              Cardinality({ k \in 1..last :
                  \E i \in 1..Len(PageOf(p, k)) :
                      PageOf(p, k)[i] = filtered[n] }) = 1
        /\ InOrderOf(p, filtered)

\* Eleven students on two pages, sorted by seat.
C22_Witness ==
    /\ totalPages(allStudents) = 2
    /\ Len(PageOf(allStudents, 2)) = 1
    /\ allStudents.sortColumn = Some("seatNumber")

\* C24: a sort click makes its column the sort column and flips that
\* column's direction only (so a second click restores it); the other
\* column's direction, the students, the search term and the page stay.
\* Before any click the directions are 'desc' for Added On and 'asc' for
\* Seat, and the list is then in the order of the new setting: ascending
\* after the first click on Added On, descending after the first on Seat.
C24_SortClick ==
    [][ /\ allStudents.sortColumn = None =>
              /\ allStudents.createdAtSortDirection = "desc"
              /\ allStudents.seatSortDirection = "asc"
        /\ SortSetting(allStudents') # SortSetting(allStudents) =>
              LET flipped(d) == IF d = "asc" THEN "desc" ELSE "asc"
              IN  /\ allStudents'.sortColumn \in
                        {Some("createdAt"), Some("seatNumber")}
                  /\ IF allStudents'.sortColumn = Some("createdAt")
                     THEN /\ allStudents'.createdAtSortDirection =
                                flipped(allStudents.createdAtSortDirection)
                          /\ allStudents'.seatSortDirection =
                                allStudents.seatSortDirection
                     ELSE /\ allStudents'.seatSortDirection =
                                flipped(allStudents.seatSortDirection)
                          /\ allStudents'.createdAtSortDirection =
                                allStudents.createdAtSortDirection
                  /\ flipped(flipped(allStudents.createdAtSortDirection)) =
                        allStudents.createdAtSortDirection
                  /\ flipped(flipped(allStudents.seatSortDirection)) =
                        allStudents.seatSortDirection
                  /\ allStudents'.students = allStudents.students
                  /\ allStudents'.searchTerm = allStudents.searchTerm
                  /\ allStudents'.currentPage = allStudents.currentPage
                  /\ InOrderOf(allStudents', sortedStudents(allStudents'))
      ]_allVars

\* Seat was clicked once and Added On never: the list is sorted by seat,
\* descending.
C24_Witness ==
    /\ allStudents.sortColumn = Some("seatNumber")
    /\ allStudents.seatSortDirection = "desc"
    /\ allStudents.createdAtSortDirection = "desc"
    /\ Len(allStudents.students) = NumStudents

\* The midnight that begins a date is before the time of the fetch.
EarlierThanFetch(date) ==
    /\ DateLE(date, Now.date)
    /\ date = Now.date => Now.minutes > 0

\* C25: a fetched student is shown as 'Active' only if the server reported
\* 'active' and its membershipEnd is not earlier than the time of the
\* fetch; a student whose membershipEnd is earlier is shown as 'Expired'.
C25_StatusShown ==
    \A n \in 1..Len(allStudents.students) :
        LET id == allStudents.students[n]
            shown == StatusShown(Students[id])
            reported == StudentSummaries[id]
        IN  /\ shown \in {"Active", "Expired"}
            /\ shown = "Active" =>
                  /\ reported.status = "active"
                  /\ ~EarlierThanFetch(reported.membershipEnd)
            /\ EarlierThanFetch(reported.membershipEnd) => shown = "Expired"

\* The list holds a student reported active whose membership has ended,
\* one reported expired whose membership runs, and one shown as active.
C25_Witness ==
    /\ \E n \in 1..Len(allStudents.students) :
          LET id == allStudents.students[n]
          IN  /\ StudentSummaries[id].status = "active"
              /\ EarlierThanFetch(StudentSummaries[id].membershipEnd)
              /\ StatusShown(Students[id]) = "Expired"
    /\ \E n \in 1..Len(allStudents.students) :
          LET id == allStudents.students[n]
          IN  /\ StudentSummaries[id].status = "expired"
              /\ ~EarlierThanFetch(StudentSummaries[id].membershipEnd)
    /\ \E n \in 1..Len(allStudents.students) :
          StatusShown(Students[allStudents.students[n]]) = "Active"

\* C26: the last financial card is titled 'Profit' exactly when profitLoss
\* >= 0 and 'Loss' otherwise, and its value is the absolute value of
\* profitLoss, never negative.
C26_ProfitLossCard ==
    LET profitLoss == dashboard.financialStats.profitLoss
        card == ProfitLossCard(dashboard.financialStats)
    IN  /\ card.title \in {"Profit", "Loss"}
        /\ card.title = "Profit" <=> profitLoss >= 0
        /\ card.value >= 0
        /\ card.value \in {profitLoss, 0 - profitLoss}

\* The statistics of a branch that made a loss are shown.
C26_Witness ==
    /\ dashboard.financialStats.profitLoss = 0 - 20
    /\ ProfitLossCard(dashboard.financialStats) =
          [title |-> "Loss", value |-> 20]

\* The users of the database with the username of a login request.
Known(req) == { u \in db.users : req.username = Some(u.username) }

\* C27: with a username and a non-empty password given and the users query
\* answered, POST /login answers an unknown username and a known username
\* with a wrong password alike: status 401, the body {message: 'Invalid
\* credentials'}, and the session as it was.
C27_LoginHidesUsernames ==
    [][ ( /\ out'.req.route = "login"
          /\ out'.status \notin {0, 400, 500}
          /\ \/ Known(out'.req) = {}
             \/ \E u \in Known(out'.req) :
                   out'.req.password # Some(u.password) )
        => /\ out'.status = 401
           /\ out'.body = [message |-> "Invalid credentials"]
           /\ sessionUser' = sessionUser
      ]_allVars

\* A logged-in session has tried to log in under a username nobody has.
C27_Witness ==
    /\ out.req.route = "login"
    /\ out.status = 401
    /\ Known(out.req) = {}
    /\ sessionUser # None

\* The passwords the users table stores.
StoredPasswords == { u.password : u \in db.users }

\* A user object of a session or a response holds id, username and role
\* only, and neither text is a stored password.
OnlyIdUsernameRole(user) ==
    /\ DOMAIN user = {"id", "username", "role"}
    /\ user.username \notin StoredPasswords
    /\ user.role \notin StoredPasswords

\* C28: the session user holds only id, username and role, and no body of
\* a response of POST /login, GET /status or GET /logout holds a stored
\* password.
C28_NoPasswordLeaves ==
    /\ sessionUser # None => OnlyIdUsernameRole(sessionUser[1])
    /\ (out.req.route \in {"login", "status", "logout"} /\ out.status # 0) =>
          /\ "password" \notin DOMAIN out.body
          /\ DOMAIN out.body \subseteq
                {"message", "user", "error", "isAuthenticated"}
          /\ "message" \in DOMAIN out.body =>
                out.body.message \notin StoredPasswords
          /\ "error" \in DOMAIN out.body =>
                out.body.error \notin StoredPasswords
          /\ ("user" \in DOMAIN out.body /\ out.req.route = "login") =>
                OnlyIdUsernameRole(out.body.user)
          /\ ("user" \in DOMAIN out.body /\ out.req.route = "status"
              /\ out.body.user # None) =>
                OnlyIdUsernameRole(out.body.user[1])

\* A login has just succeeded: the session and the response carry the user.
C28_Witness ==
    /\ out.req.route = "login" /\ out.status = 200
    /\ sessionUser = Some(out.body.user)

\* A guard's decision is one of: next called, or one response sent.
OneOutcome(g) == ~g.threw /\ (g.next <=> g.status = 0)

\* C30: on every session reached through login and logout each of
\* checkAdmin, checkAdminOrStaff and authenticateUser either calls next or
\* sends one response; without a session user each answers 401; a session
\* checkAdmin admits is admitted by checkAdminOrStaff; and a session GET
\* /status reports as authenticated is admitted by authenticateUser.
C30_GuardsAgree ==
    LET admin == checkAdmin(sessionUser)
        adminOrStaff == checkAdminOrStaff(sessionUser)
        authenticated == authenticateUser(sessionUser)
    IN  /\ OneOutcome(admin) /\ OneOutcome(adminOrStaff)
        /\ OneOutcome(authenticated)
        /\ sessionUser = None =>
              /\ admin.status = 401 /\ adminOrStaff.status = 401
              /\ authenticated.status = 401
        /\ admin.next => adminOrStaff.next
        /\ StatusBody(sessionUser).isAuthenticated => authenticated.next
        /\ (out.req.route = "guarded"
            /\ out.req.guard \in {"checkAdmin", "authenticateUser"}) =>
              (out.next <=> out.status = 0)

\* An admin's request has passed checkAdmin.
C30_Witness ==
    /\ sessionUser # None /\ sessionUser[1].role = "admin"
    /\ out.req.route = "guarded" /\ out.req.guard = "checkAdmin"
    /\ out.next

\* C29: a click on Logout in the Sidebar ends the session: after it the
\* server-side session has no user (so GET /status reports isAuthenticated
\* false and the guards answer 401).
C29_LogoutClickEndsSession ==
    [][ (sidebar.pathname # "/login" /\ sidebar'.pathname = "/login")
        => /\ sessionUser' = None
           /\ ~StatusBody(sessionUser').isAuthenticated
           /\ authenticateUser(sessionUser').status = 401
      ]_allVars

============================================================================
